---- MODULE Spec2Model ----
(***************************************************************************)
(* Presence registry, delivery / read-receipt engine and call signaling of *)
(* src/app.py, as a state machine: one action per Socket.IO handler or     *)
(* HTTP route, handled one at a time.                                      *)
(***************************************************************************)
EXTENDS Integers, Sequences, FiniteSets, TLC

\* ------------------------------------------------------------------ values

\* Python's None, for usernames, tokens and connection ids.
None == "None"

\* The rows of the User table, in the order User.query.all() returns them
\* (username is a unique column).
AllUsers == <<"alice", "bob", "carol">>

Users == {"alice", "bob", "carol"}

\* Connection ids handed out by the transport (request.sid).
Sids == {"s1", "s2"}

\* Access tokens that login_post can issue, and the identity each carries.
Tokens == {"tok_alice", "tok_bob"}

TokenIdentity(token) == IF token = "tok_alice" THEN "alice" ELSE "bob"

\* A room key is a string; it is kept as its sequence of lexemes (a username
\* or the separator "-"), so that split('-') is computed and not looked up.
\* The empty key stands for a missing (None or '') room.
NoRoom == <<>>

RoomAB == <<"alice", "-", "bob">>

RoomAC == <<"alice", "-", "carol">>

\* Keys with one part, three parts, the same part twice and an empty part.
RoomA == <<"alice">>

RoomABC == <<"alice", "-", "bob", "-", "carol">>

RoomAA == <<"alice", "-", "alice">>

RoomATrailing == <<"alice", "-">>

JoinKeys == {RoomAB, RoomAC, RoomA, RoomABC, RoomAA, RoomATrailing}

Rooms == {RoomAB, RoomAC}

\* Bound of the model: rows the Message and AudioMessage tables hold together.
MaxRows == 2

\* ------------------------------------------------------------------ state

VARIABLES
    connected,      \* connection ids with a live channel (transport state)
    online_users,   \* dict sid -> username, in insertion order
    active_tokens,  \* set of tokens currently valid
    members,        \* Socket.IO room membership: room key -> set of sids
    Message,        \* Message table: row i has id i
    AudioMessage,   \* AudioMessage table: row i has id i
    UnreadMessage,  \* UnreadMessage table, in insertion order
    emits,          \* events emitted by the handler that ran last, in order
    ret,            \* what the handler that ran last returned to its caller
    call_log,       \* history: the call offers relayed so far and whether each was
                    \* answered; the code keeps none (no attempt is stored)
    response,       \* the HTTP response of the reaction endpoint that ran last
    running         \* handler invocations in flight: their position and locals

vars == <<connected, online_users, active_tokens, members, Message, AudioMessage,
          UnreadMessage, emits, ret, call_log, response, running>>

\* ------------------------------------------------------------------ helpers

\* Python truthiness of an optional string.
Truthy(x) == x # None /\ x # ""

\* s.split('-') on a key of lexemes: the parts between separators; an empty
\* part is ''.
RECURSIVE SplitFrom(_, _, _)
SplitFrom(s, i, cur) ==
    IF i > Len(s) THEN <<cur>>
    ELSE IF s[i] = "-" THEN <<cur>> \o SplitFrom(s, i + 1, "")
    ELSE SplitFrom(s, i + 1, s[i])

split(room) == SplitFrom(room, 1, "")

Range(s) == {s[i] : i \in 1..Len(s)}

\* dict operations on a sequence of [sid, uname] entries (insertion ordered).
DictHas(d, k) == \E i \in 1..Len(d) : d[i].sid = k

DictDel(d, k) == SelectSeq(d, LAMBDA e : e.sid # k)

DictSet(d, k, v) ==
    IF DictHas(d, k)
    THEN [i \in 1..Len(d) |-> IF d[i].sid = k THEN [sid |-> k, uname |-> v] ELSE d[i]]
    ELSE Append(d, [sid |-> k, uname |-> v])

DictValues(d) == {d[i].uname : i \in 1..Len(d)}

\* get_user_sid over a given dict: the first sid mapped to username, or None.
UserSidIn(d, username) ==
    IF \E i \in 1..Len(d) : d[i].uname = username
    THEN d[CHOOSE i \in 1..Len(d) :
              /\ d[i].uname = username
              /\ \A j \in 1..(i - 1) : d[j].uname # username].sid
    ELSE None

get_user_sid(username) == UserSidIn(online_users, username)

\* Addresses of an emit: one connection, a room (optionally without the
\* calling connection), or every connection.
ToSid(sid) == [kind |-> "sid", sid |-> sid, room |-> NoRoom, skip |-> None]

ToRoom(room, skip) == [kind |-> "room", sid |-> None, room |-> room, skip |-> skip]

ToAll == [kind |-> "all", sid |-> None, room |-> NoRoom, skip |-> None]

Emit(event, to, payload) == [event |-> event, to |-> to, payload |-> payload]

\* get_user_list_with_status over a given dict: one entry per row of the User
\* table, online when the username is among set(online_users.values()).
UserListOf(d) ==
    [i \in 1..Len(AllUsers) |->
        [username |-> AllUsers[i], online |-> (AllUsers[i] \in DictValues(d))]]

get_user_list_with_status == UserListOf(online_users)

\* Mutant of BroadcastUserList: the list is taken before the registry changes.
BroadcastUserListStale(d) ==
    <<Emit("user_list", ToAll, [users |-> UserListOf(online_users)])>>

\* broadcast_user_list, after online_users became d.
BroadcastUserList(d) == <<Emit("user_list", ToAll, [users |-> UserListOf(d)])>>

\* ------------------------------------------------------------------ tables

\* Ids of a table's rows, ascending (the order a query returns them in).
RowIds(T) == [i \in 1..Len(T) |-> i]

\* reactions = db.Column(db.Text, default='{}'): the JSON text of an empty
\* object, as the sequence of its lexemes.
EmptyJson == <<"{", "}">>

\* Mutant of NewRow: a new row starts as delivered.
NewRowDelivered(room, sender) ==
    [room |-> room, sender |-> sender, status |-> "delivered", reactions |-> EmptyJson]

\* Message(room=..., sender=..., status='sent') / AudioMessage(...): a new row.
NewRow(room, sender) ==
    [room |-> room, sender |-> sender, status |-> "sent", reactions |-> EmptyJson]

\* UnreadMessage.query.filter_by(username=, room=).first(): the index of the
\* first matching row, 0 when there is none.
UnreadFirst(T, username, room) ==
    IF \E i \in 1..Len(T) : T[i].username = username /\ T[i].room = room
    THEN CHOOSE i \in 1..Len(T) :
             /\ T[i].username = username /\ T[i].room = room
             /\ \A j \in 1..(i - 1) : ~(T[j].username = username /\ T[j].room = room)
    ELSE 0

\* The count table T holds for (username, room): 0 when no row exists.
UnreadCount(T, username, room) ==
    LET i == UnreadFirst(T, username, room)
    IN  IF i = 0 THEN 0 ELSE T[i].count

UnreadCounter(username, room) == UnreadCount(UnreadMessage, username, room)

\* unread = ...first(); if unread: unread.count = 0
ResetUnread(T, username, room) ==
    LET i == UnreadFirst(T, username, room)
    IN  IF i = 0 THEN T ELSE [T EXCEPT ![i].count = 0]

\* Mutant of IncUnread: an existing counter is set to one, not incremented.
IncUnreadOverwrite(T, username, room) ==
    LET i == UnreadFirst(T, username, room)
    IN  IF i = 0
        THEN Append(T, [username |-> username, room |-> room, count |-> 1])
        ELSE [T EXCEPT ![i].count = 1]

\* if not unread: add UnreadMessage(count=1) else: unread.count += 1
IncUnread(T, username, room) ==
    LET i == UnreadFirst(T, username, room)
    IN  IF i = 0
        THEN Append(T, [username |-> username, room |-> room, count |-> 1])
        ELSE [T EXCEPT ![i].count = @ + 1]

RECURSIVE IncUnreadAll(_, _, _)
IncUnreadAll(T, recipients, room) ==
    IF recipients = <<>> THEN T
    ELSE IncUnreadAll(IncUnread(T, Head(recipients), room), Tail(recipients), room)

\* ------------------------------------------------- notifications per sender

\* Senders of updated_messages in order of first appearance (senders_notified).
RECURSIVE SendersFrom(_, _, _)
SendersFrom(updated, i, acc) ==
    IF i > Len(updated) THEN acc
    ELSE SendersFrom(updated, i + 1,
                     IF updated[i].sender \in Range(acc) THEN acc
                     ELSE Append(acc, updated[i].sender))

\* Mutant of SenderMsgIds: every updated id is listed, whoever sent it.
SenderMsgIdsAll(updated, sender) ==
    [i \in 1..Len(updated) |-> updated[i].id]

\* [m['id'] for m in updated_messages if m['sender'] == sender]
SenderMsgIds(updated, sender) ==
    LET mine == SelectSeq(updated, LAMBDA m : m.sender = sender)
    IN  [i \in 1..Len(mine) |-> mine[i].id]

\* One event per distinct sender that is resolvable in dict d.
RECURSIVE NotifySenders(_, _, _, _, _, _)
NotifySenders(event, updated, senders, d, who, room) ==
    IF senders = <<>> THEN <<>>
    ELSE LET sender == Head(senders)
             sender_sid == UserSidIn(d, sender)
             rest == NotifySenders(event, updated, Tail(senders), d, who, room)
         IN  IF sender_sid # None
             THEN <<Emit(event, ToSid(sender_sid),
                         [message_ids |-> SenderMsgIds(updated, sender),
                          by |-> who, room |-> room])>> \o rest
             ELSE rest

\* ------------------------------------------ update_delivery_status_for_user

\* db.session.query(Message.room).distinct(): rooms of the Message table.
RECURSIVE DistinctRoomsFrom(_, _, _)
DistinctRoomsFrom(M, i, acc) ==
    IF i > Len(M) THEN acc
    ELSE DistinctRoomsFrom(M, i + 1,
                           IF M[i].room \in Range(acc) THEN acc
                           ELSE Append(acc, M[i].room))

all_rooms(M) == DistinctRoomsFrom(M, 1, <<>>)

\* Mutant of Promotable: the status filter is dropped.
PromotableAnyStatus(row, room, username) ==
    row.room = room /\ row.sender # username

\* filter_by(room=room, status='sent').filter(sender != username)
Promotable(row, room, username) ==
    row.room = room /\ row.status = "sent" /\ row.sender # username

\* The rooms of all_rooms that name username as a participant.
RoomsOf(M, username) ==
    SelectSeq(all_rooms(M), LAMBDA room : username \in Range(split(room)))

UpdatedIn(T, room, username, type) ==
    LET ids == SelectSeq(RowIds(T), LAMBDA i : Promotable(T[i], room, username))
    IN  [k \in 1..Len(ids) |-> [id |-> ids[k], sender |-> T[ids[k]].sender, type |-> type]]

RECURSIVE DeliveryUpdates(_, _, _, _)
DeliveryUpdates(M, A, rooms, username) ==
    IF rooms = <<>> THEN <<>>
    ELSE UpdatedIn(M, Head(rooms), username, "text")
         \o UpdatedIn(A, Head(rooms), username, "audio")
         \o DeliveryUpdates(M, A, Tail(rooms), username)

PromoteRows(T, rooms, username) ==
    [i \in 1..Len(T) |->
        IF \E k \in 1..Len(rooms) : Promotable(T[i], rooms[k], username)
        THEN [T[i] EXCEPT !.status = "delivered"]
        ELSE T[i]]

\* The whole helper: the new tables and the events it emits, with online_users = d.
update_delivery_status_for_user(username, d) ==
    LET rooms == RoomsOf(Message, username)
        updated == DeliveryUpdates(Message, AudioMessage, rooms, username)
    IN  [M |-> PromoteRows(Message, rooms, username),
         A |-> PromoteRows(AudioMessage, rooms, username),
         emits |-> NotifySenders("messages_delivered", updated,
                                 SendersFrom(updated, 1, <<>>), d, username, NoRoom)]

\* ------------------------------------------------------------------ handlers

\* What a handler returns: True, False, or nothing.
RetTrue == "True"

RetFalse == "False"

RetNone == "None"

\* Handler invocations the server may have in flight at once: SocketIO(app)
\* runs every event handler in a task of its own and the module takes no lock.
Calls == {"c1", "c2"}

\* An invocation slot with no handler in it. A running handler keeps its
\* position, its connection and its locals: username (current_user, sender),
\* room, id (msg_obj.id), pending (to_remove, the ids not yet looked at, or
\* delivered_to_recipients), updated (updated_messages, or the unread rows
\* changed in the session) and out, the events it has emitted.
Idle ==
    [pc |-> "idle", sid |-> None, username |-> None, room |-> NoRoom, id |-> 0,
     pending |-> <<>>, updated |-> <<>>, out |-> <<>>]

\* No reaction endpoint has answered yet.
NoResponse == [code |-> 0, reactions |-> <<>>]

Init ==
    /\ connected = {}
    /\ online_users = <<>>
    /\ active_tokens = {}
    /\ members = [room \in Rooms |-> {}]
    /\ Message = <<>>
    /\ AudioMessage = <<>>
    /\ UnreadMessage = <<>>
    /\ emits = <<>>
    /\ ret = RetNone
    /\ call_log = {}
    /\ response = NoResponse
    /\ running = [c \in Calls |-> Idle]

\* POST /login with the credentials of username: a token for it becomes active.
login_post(token) ==
    /\ active_tokens' = active_tokens \cup {token}
    /\ emits' = <<>>
    /\ ret' = RetNone
    /\ UNCHANGED <<connected, online_users, members, Message, AudioMessage, UnreadMessage, call_log, response, running>>

\* GET /logout with an active token in the Authorization header. The view
\* is declared as logout(current_user), the route has no URL parameter and
\* jwt_required() passes none, so the call raises TypeError before
\* active_tokens.remove(token) is reached: the request ends in an internal
\* server error and the set is as before.
logout(token) ==
    /\ token \in active_tokens
    /\ response' = [code |-> 500, reactions |-> <<>>]
    /\ emits' = <<>>
    /\ ret' = RetNone
    /\ UNCHANGED <<connected, online_users, active_tokens, members, Message, AudioMessage,
                   UnreadMessage, call_log, running>>

\* POST /api/validate-token with an issued token in the Authorization
\* header: the token is put (back) in active_tokens.
validate_token(token) ==
    /\ token \in active_tokens
    /\ active_tokens' = active_tokens \cup {token}
    /\ response' = [code |-> 200, reactions |-> <<>>]
    /\ emits' = <<>>
    /\ ret' = RetNone
    /\ UNCHANGED <<connected, online_users, members, Message, AudioMessage,
                   UnreadMessage, call_log, running>>

\* authenticate: true for a token that is given and in active_tokens.
on_authenticate(sid, token) ==
    /\ sid \in connected
    /\ ret' = IF Truthy(token) /\ token \in active_tokens THEN RetTrue ELSE RetFalse
    /\ emits' = <<>>
    /\ UNCHANGED <<connected, online_users, active_tokens, members, Message, AudioMessage,
                   UnreadMessage, call_log, response, running>>

\* Mutant of RegisterEvict: the previous connections of username are kept.
RegisterEvictNone(d, sid, username) == d

\* to_remove = [s for s, u in online_users.items() if u == username and s != sid]
RegisterEvict(d, sid, username) ==
    SelectSeq(d, LAMBDA e : ~(e.uname = username /\ e.sid # sid))

\* The credential test of on_register: membership in active_tokens only.
TokenAccepted(token, username) == token \in active_tokens

on_register(sid, username, token) ==
    /\ sid \in connected
    /\ IF Truthy(username) /\ Truthy(token)
       THEN IF ~TokenAccepted(token, username)
            THEN /\ emits' = <<Emit("force_logout", ToSid(sid), [reason |-> "invalid_token"])>>
                 /\ ret' = RetFalse
                 /\ UNCHANGED <<online_users, Message, AudioMessage>>
            ELSE LET d == DictSet(RegisterEvict(online_users, sid, username), sid, username)
                     upd == update_delivery_status_for_user(username, d)
                 IN  /\ online_users' = d
                     /\ Message' = upd.M
                     /\ AudioMessage' = upd.A
                     /\ emits' = upd.emits \o BroadcastUserList(d)
                     /\ ret' = RetTrue
       ELSE /\ emits' = <<>>
            /\ ret' = RetFalse
            /\ UNCHANGED <<online_users, Message, AudioMessage>>
    /\ UNCHANGED <<connected, active_tokens, members, UnreadMessage, call_log, response, running>>

\* Mutant of on_connect: the roster goes to every connection.
on_connect_announces(sid) ==
    /\ sid \notin connected
    /\ connected' = connected \cup {sid}
    /\ emits' = <<Emit("user_list", ToAll, [users |-> get_user_list_with_status])>>
    /\ ret' = RetNone
    /\ UNCHANGED <<online_users, active_tokens, members, Message, AudioMessage,
                   UnreadMessage, call_log, response, running>>

\* A new channel opens; the transport assigns it a connection id not in use.
on_connect(sid) ==
    /\ sid \notin connected
    /\ connected' = connected \cup {sid}
    /\ LET first == <<Emit("user_list", ToSid(sid), [users |-> get_user_list_with_status])>>
       IN  IF DictHas(online_users, sid)
           THEN LET username == online_users[CHOOSE i \in 1..Len(online_users) :
                                                 online_users[i].sid = sid].uname
                    upd == update_delivery_status_for_user(username, online_users)
                IN  /\ Message' = upd.M
                    /\ AudioMessage' = upd.A
                    /\ emits' = first \o upd.emits
           ELSE /\ emits' = first
                /\ UNCHANGED <<Message, AudioMessage>>
    /\ ret' = RetNone
    /\ UNCHANGED <<online_users, active_tokens, members, UnreadMessage, call_log, response, running>>

\* Mutant of DisconnectEffect: the roster is broadcast whether or not the
\* connection held an entry.
DisconnectEffectAlways(d, sid) ==
    [d |-> DictDel(d, sid), emits |-> BroadcastUserList(DictDel(d, sid))]

\* if sid in online_users: del online_users[sid]; broadcast_user_list()
\* on registry d: the new registry and the events emitted.
DisconnectEffect(d, sid) ==
    IF DictHas(d, sid)
    THEN [d |-> DictDel(d, sid), emits |-> BroadcastUserList(DictDel(d, sid))]
    ELSE [d |-> d, emits |-> <<>>]

\* The channel closes.
on_disconnect(sid) ==
    /\ sid \in connected
    /\ connected' = connected \ {sid}
    /\ online_users' = DisconnectEffect(online_users, sid).d
    /\ emits' = DisconnectEffect(online_users, sid).emits
    /\ members' = [room \in DOMAIN members |-> members[room] \ {sid}]
    /\ ret' = RetNone
    /\ UNCHANGED <<active_tokens, Message, AudioMessage, UnreadMessage, call_log, response, running>>

\* recipients = [p for p in room.split('-') if p != sender]
Recipients(room, sender) == SelectSeq(split(room), LAMBDA p : p # sender)

\* Mutant of DeliveredTo: every recipient counts, resolvable or not.
DeliveredToAll(room, sender) == Recipients(room, sender)

\* The recipients for which get_user_sid is truthy, in order.
DeliveredTo(room, sender) ==
    SelectSeq(Recipients(room, sender), LAMBDA r : Truthy(get_user_sid(r)))

\* for sid, uname in online_users.items(): if uname != sender: emit(...)
GlobalNotifications(room, sender, type) ==
    LET others == SelectSeq(online_users, LAMBDA e : e.uname # sender)
    IN  [i \in 1..Len(others) |->
            Emit("global_message_notification", ToSid(others[i].sid),
                 [from |-> sender, room |-> room, message_type |-> type])]

\* The status the new row ends with.
StatusAfterSend(delivered_to_recipients) ==
    IF delivered_to_recipients # <<>> THEN "delivered" ELSE "sent"

\* Mutant of DeliveredNotice: the sender is told even when nobody was reached.
DeliveredNoticeAlways(id, sender, delivered_to_recipients, type) ==
    IF Truthy(get_user_sid(sender))
    THEN <<Emit("message_delivered", ToSid(get_user_sid(sender)),
                [message_id |-> id, status |-> "delivered",
                 delivered_to |-> delivered_to_recipients, type |-> type])>>
    ELSE <<>>

\* message_delivered to the sender's connection, when there is one.
DeliveredNotice(id, sender, delivered_to_recipients, type) ==
    LET sender_sid == get_user_sid(sender)
    IN  IF delivered_to_recipients # <<>> /\ Truthy(sender_sid)
        THEN <<Emit("message_delivered", ToSid(sender_sid),
                    [message_id |-> id, status |-> "delivered",
                     delivered_to |-> delivered_to_recipients, type |-> type])>>
        ELSE <<>>

\* Mutant of RoomBroadcast: the event is built before the status is updated.
RoomBroadcastStale(event, room, sender, id, status, delivered_to_recipients) ==
    <<Emit(event, ToRoom(room, None),
           [from |-> sender, message_id |-> id, status |-> "sent",
            delivered_to |-> delivered_to_recipients])>>

\* emit(event, {..., 'message_id', 'status', 'delivered_to'}, room=room,
\* include_self=True)
RoomBroadcast(event, room, sender, id, status, delivered_to_recipients) ==
    <<Emit(event, ToRoom(room, None),
           [from |-> sender, message_id |-> id, status |-> status,
            delivered_to |-> delivered_to_recipients])>>

on_send_chat_message(room, message, sender) ==
    /\ connected # {}
    /\ IF room = NoRoom \/ ~Truthy(message) \/ ~Truthy(sender)
       THEN /\ emits' = <<>>
            /\ UNCHANGED <<Message, UnreadMessage>>
       ELSE /\ Len(Message) + Len(AudioMessage) < MaxRows
            /\ LET id == Len(Message) + 1
                   delivered_to_recipients == DeliveredTo(room, sender)
                   status == StatusAfterSend(delivered_to_recipients)
               IN  /\ Message' = Append(Message, [NewRow(room, sender) EXCEPT !.status = status])
                   /\ UnreadMessage' = IncUnreadAll(UnreadMessage, delivered_to_recipients, room)
                   /\ emits' = DeliveredNotice(id, sender, delivered_to_recipients, "text")
                               \o RoomBroadcast("receive_chat_message", room, sender, id, status,
                                                delivered_to_recipients)
                               \o GlobalNotifications(room, sender, "text")
    /\ ret' = RetNone
    /\ UNCHANGED <<connected, online_users, active_tokens, members, AudioMessage, call_log, response, running>>

on_audio_message(room, sender) ==
    /\ connected # {}
    /\ Len(Message) + Len(AudioMessage) < MaxRows
    /\ LET id == Len(AudioMessage) + 1
           delivered_to_recipients == DeliveredTo(room, sender)
           status == StatusAfterSend(delivered_to_recipients)
       IN  /\ AudioMessage' = Append(AudioMessage, [NewRow(room, sender) EXCEPT !.status = status])
           /\ UnreadMessage' = IncUnreadAll(UnreadMessage, delivered_to_recipients, room)
           /\ emits' = DeliveredNotice(id, sender, delivered_to_recipients, "audio")
                       \o RoomBroadcast("audio_message", room, sender, id, status,
                                        delivered_to_recipients)
    /\ ret' = RetNone
    /\ UNCHANGED <<connected, online_users, active_tokens, members, Message, call_log, response, running>>

\* Mutant of SeenEligible: the viewer's own rows are eligible too.
SeenEligibleOwn(T, msg_id, current_user) ==
    /\ msg_id \in 1..Len(T)
    /\ T[msg_id].status # "seen"

\* Mutant of SeenEligible: rows that are already seen are eligible again.
SeenEligibleAgain(T, msg_id, current_user) ==
    /\ msg_id \in 1..Len(T)
    /\ T[msg_id].sender # current_user

\* if msg and msg.sender != current_user and msg.status != 'seen'
SeenEligible(T, msg_id, current_user) ==
    /\ msg_id \in 1..Len(T)
    /\ T[msg_id].sender # current_user
    /\ T[msg_id].status # "seen"

\* One pass of the loop body of mark_seen over a single id.
MarkOne(st, msg_id, current_user) ==
    LET text == SeenEligible(st.M, msg_id, current_user)
        audio == SeenEligible(st.A, msg_id, current_user)
    IN  [M |-> IF text THEN [st.M EXCEPT ![msg_id].status = "seen"] ELSE st.M,
         A |-> IF audio THEN [st.A EXCEPT ![msg_id].status = "seen"] ELSE st.A,
         updated |-> st.updated
            \o (IF text THEN <<[id |-> msg_id, sender |-> st.M[msg_id].sender, type |-> "text"]>>
                ELSE <<>>)
            \o (IF audio THEN <<[id |-> msg_id, sender |-> st.A[msg_id].sender, type |-> "audio"]>>
                ELSE <<>>)]

RECURSIVE MarkAll(_, _, _)
MarkAll(st, message_ids, current_user) ==
    IF message_ids = <<>> THEN st
    ELSE MarkAll(MarkOne(st, Head(message_ids), current_user), Tail(message_ids), current_user)

\* Whether mark_seen reaches its "clear unread count" block.
ClearsUnread(updated_messages, room) == updated_messages # <<>> /\ room # NoRoom

\* The body of mark_seen after validation, on tables M, A, U with
\* online_users = d: the new tables and the events emitted.
MarkSeenEffect(M, A, U, d, message_ids, current_user, room) ==
    LET st == MarkAll([M |-> M, A |-> A, updated |-> <<>>], message_ids, current_user)
    IN  [M |-> st.M,
         A |-> st.A,
         U |-> IF ClearsUnread(st.updated, room)
               THEN ResetUnread(U, current_user, room)
               ELSE U,
         emits |-> NotifySenders("messages_seen", st.updated,
                                 SendersFrom(st.updated, 1, <<>>), d, current_user, room)]

mark_seen(message_ids, current_user, room) ==
    /\ connected # {}
    /\ IF message_ids = <<>> \/ ~Truthy(current_user)
       THEN /\ emits' = <<>>
            /\ UNCHANGED <<Message, AudioMessage, UnreadMessage>>
       ELSE LET eff == MarkSeenEffect(Message, AudioMessage, UnreadMessage, online_users,
                                      message_ids, current_user, room)
            IN  /\ Message' = eff.M
                /\ AudioMessage' = eff.A
                /\ UnreadMessage' = eff.U
                /\ emits' = eff.emits
    /\ ret' = RetNone
    /\ UNCHANGED <<connected, online_users, active_tokens, members, call_log, response, running>>

\* Mutant of Peer: the first part of the key is taken, whoever it names.
PeerFirst(room, username) ==
    LET users == split(room)
    IN  IF Len(users) = 2 THEN users[1] ELSE ""

\* peer = [u for u in users if u != username][0] if len(users) == 2 else ''
\* (an IndexError is caught and gives '').
Peer(room, username) ==
    LET users == split(room)
        others == SelectSeq(users, LAMBDA u : u # username)
    IN  IF Len(users) = 2 /\ others # <<>> THEN others[1] ELSE ""

\* if room and username: socketio.emit('room_joined', ..., room=request.sid)
JoinReply(sid, room, username) ==
    IF room # NoRoom /\ Truthy(username)
    THEN <<Emit("room_joined", ToSid(sid),
                [room_id |-> room, peer |-> Peer(room, username)])>>
    ELSE <<>>

on_join(sid, room, username) ==
    /\ sid \in connected
    /\ members' = [members EXCEPT ![room] = @ \cup {sid}]
    /\ UnreadMessage' = ResetUnread(UnreadMessage, username, room)
    /\ emits' = JoinReply(sid, room, username)
    /\ ret' = RetNone
    /\ UNCHANGED <<connected, online_users, active_tokens, Message, AudioMessage, call_log, response, running>>

on_leave(sid, room, username) ==
    /\ sid \in connected
    /\ members' = [members EXCEPT ![room] = @ \ {sid}]
    /\ emits' = <<>>
    /\ ret' = RetNone
    /\ UNCHANGED <<connected, online_users, active_tokens, Message, AudioMessage, UnreadMessage, call_log, response, running>>

\* ------------------------------------------------------------ call signaling

\* A pending entry of the history: an offer from caller relayed to callee.
Offer(caller, callee, room) ==
    [from |-> caller, to |-> callee, room |-> room, answered |-> FALSE]

\* call_error to the connection registered under username, when there is one.
CallError(username, message) ==
    LET initiator_sid == get_user_sid(username)
    IN  IF Truthy(initiator_sid)
        THEN <<Emit("call_error", ToSid(initiator_sid), [message |-> message])>>
        ELSE <<>>

\* not all([target_username, call_type, from_username, room_id])
CallInitiateMalformed(target_username, call_type, from_username, room_id) ==
    ~(Truthy(target_username) /\ Truthy(call_type) /\ Truthy(from_username)
      /\ room_id # NoRoom)

\* The events of call_initiate.
CallInitiateEmits(target_username, call_type, from_username, room_id) ==
    IF CallInitiateMalformed(target_username, call_type, from_username, room_id)
    THEN CallError(from_username, "missing_data")
    ELSE LET target_sid == get_user_sid(target_username)
         IN  IF Truthy(target_sid)
             THEN <<Emit("call_offer", ToSid(target_sid),
                         [from |-> from_username, call_type |-> call_type,
                          room_id |-> room_id])>>
             ELSE CallError(from_username, "not_online")

on_call_initiate(target_username, call_type, from_username, room_id) ==
    /\ connected # {}
    /\ emits' = CallInitiateEmits(target_username, call_type, from_username, room_id)
    /\ call_log' =
           IF /\ ~CallInitiateMalformed(target_username, call_type, from_username, room_id)
              /\ Truthy(get_user_sid(target_username))
           THEN call_log \cup {Offer(from_username, target_username, room_id)}
           ELSE call_log
    /\ ret' = RetNone
    /\ UNCHANGED <<connected, online_users, active_tokens, members, Message, AudioMessage,
                   UnreadMessage, response, running>>

\* not all([to_username, from_username, room_id]) or accepted is None
CallResponseMalformed(to_username, from_username, accepted, room_id) ==
    ~(Truthy(to_username) /\ Truthy(from_username) /\ room_id # NoRoom) \/ accepted = None

\* Mutant of CallResponseEmits: the answer is also sent back to the responder.
CallResponseEmitsEcho(to_username, from_username, accepted, room_id, call_type) ==
    IF CallResponseMalformed(to_username, from_username, accepted, room_id)
    THEN CallError(from_username, "missing_data")
    ELSE LET payload == [from |-> from_username, accepted |-> accepted,
                         room_id |-> room_id, call_type |-> call_type]
         IN  (IF Truthy(get_user_sid(to_username))
              THEN <<Emit("call_response", ToSid(get_user_sid(to_username)), payload)>>
              ELSE <<>>)
             \o (IF Truthy(get_user_sid(from_username))
                 THEN <<Emit("call_response", ToSid(get_user_sid(from_username)), payload)>>
                 ELSE <<>>)

\* Mutant of CallResponseEmits: an answer is relayed only while an offer of the
\* caller to the responder is pending.
CallResponseEmitsIfOffered(to_username, from_username, accepted, room_id, call_type) ==
    IF CallResponseMalformed(to_username, from_username, accepted, room_id)
    THEN CallError(from_username, "missing_data")
    ELSE IF /\ Truthy(get_user_sid(to_username))
            /\ Offer(to_username, from_username, room_id) \in call_log
         THEN <<Emit("call_response", ToSid(get_user_sid(to_username)),
                     [from |-> from_username, accepted |-> accepted,
                      room_id |-> room_id, call_type |-> call_type])>>
         ELSE <<>>

\* The events of call_response.
CallResponseEmits(to_username, from_username, accepted, room_id, call_type) ==
    IF CallResponseMalformed(to_username, from_username, accepted, room_id)
    THEN CallError(from_username, "missing_data")
    ELSE LET to_sid == get_user_sid(to_username)
         IN  IF Truthy(to_sid)
             THEN <<Emit("call_response", ToSid(to_sid),
                         [from |-> from_username, accepted |-> accepted,
                          room_id |-> room_id, call_type |-> call_type])>>
             ELSE <<>>

on_call_response(to_username, from_username, accepted, room_id, call_type) ==
    /\ connected # {}
    /\ emits' = CallResponseEmits(to_username, from_username, accepted, room_id, call_type)
    /\ call_log' =
           IF /\ ~CallResponseMalformed(to_username, from_username, accepted, room_id)
              /\ Truthy(get_user_sid(to_username))
              /\ Offer(to_username, from_username, room_id) \in call_log
           THEN (call_log \ {Offer(to_username, from_username, room_id)})
                \cup {[Offer(to_username, from_username, room_id) EXCEPT !.answered = TRUE]}
           ELSE call_log
    /\ ret' = RetNone
    /\ UNCHANGED <<connected, online_users, active_tokens, members, Message, AudioMessage,
                   UnreadMessage, response, running>>

\* Mutant of RelayToOthers: the event is relayed without the test of room and
\* sender.
RelayToOthersUnchecked(event, sid, room, sender, payload) ==
    <<Emit(event, ToRoom(room, sid), payload)>>

\* Mutant of RelayToOthers: the calling connection is not skipped.
RelayToOthersEcho(event, sid, room, sender, payload) ==
    IF room # NoRoom /\ Truthy(sender)
    THEN <<Emit(event, ToRoom(room, None), payload)>>
    ELSE <<>>

\* emit(event, payload, room=room, include_self=False) when room and sender
\* are given: to the room, without the calling connection.
RelayToOthers(event, sid, room, sender, payload) ==
    IF room # NoRoom /\ Truthy(sender)
    THEN <<Emit(event, ToRoom(room, sid), payload)>>
    ELSE <<>>

on_call_ended(sid, room, sender) ==
    /\ sid \in connected
    /\ emits' = RelayToOthers("call_ended", sid, room, sender, [from |-> sender])
    /\ ret' = RetNone
    /\ UNCHANGED <<connected, online_users, active_tokens, members, Message, AudioMessage,
                   UnreadMessage, call_log, response, running>>

on_decline_call(sid, room, sender) ==
    /\ sid \in connected
    /\ emits' = RelayToOthers("call_declined", sid, room, sender, [from |-> sender])
    /\ ret' = RetNone
    /\ UNCHANGED <<connected, online_users, active_tokens, members, Message, AudioMessage,
                   UnreadMessage, call_log, response, running>>

\* ------------------------------------------------------- signal and relays

\* The 'signal' field of a signal event: a dict with an opaque body and an
\* optional target; NoSignal stands for a missing or empty one.
NoSignal == [body |-> None, target |-> None]

Signal(target) == [body |-> "sdp", target |-> target]

\* Truthiness of the dict: it has some key.
SignalTruthy(signal_data) == signal_data.body # None \/ signal_data.target # None

\* Mutant of SignalEmits: the target is ignored and the signal goes to the room.
SignalEmitsToRoom(sid, room, signal_data, sender) ==
    IF room = NoRoom \/ ~SignalTruthy(signal_data) \/ ~Truthy(sender)
    THEN <<>>
    ELSE <<Emit("signal", ToRoom(room, sid), [from |-> sender, signal |-> signal_data])>>

\* The events of signal.
SignalEmits(sid, room, signal_data, sender) ==
    LET target == IF SignalTruthy(signal_data) THEN signal_data.target ELSE None
        payload == [from |-> sender, signal |-> signal_data]
    IN  IF room = NoRoom \/ ~SignalTruthy(signal_data) \/ ~Truthy(sender)
        THEN <<>>
        ELSE IF Truthy(target)
             THEN LET target_sid == get_user_sid(target)
                  IN  IF Truthy(target_sid)
                      THEN <<Emit("signal", ToSid(target_sid), payload)>>
                      ELSE <<>>
             ELSE <<Emit("signal", ToRoom(room, sid), payload)>>

on_signal(sid, room, signal_data, sender) ==
    /\ sid \in connected
    /\ emits' = SignalEmits(sid, room, signal_data, sender)
    /\ ret' = RetNone
    /\ UNCHANGED <<connected, online_users, active_tokens, members, Message, AudioMessage,
                   UnreadMessage, call_log, response, running>>

on_live_typing(sid, room, sender, text) ==
    /\ sid \in connected
    /\ emits' = RelayToOthers("live_typing", sid, room, sender,
                                [from |-> sender, text |-> text])
    /\ ret' = RetNone
    /\ UNCHANGED <<connected, online_users, active_tokens, members, Message, AudioMessage,
                   UnreadMessage, call_log, response, running>>

on_call_chat_typing(sid, room, sender, text) ==
    /\ sid \in connected
    /\ emits' = RelayToOthers("call_chat_typing", sid, room, sender,
                                [from |-> sender, text |-> text])
    /\ ret' = RetNone
    /\ UNCHANGED <<connected, online_users, active_tokens, members, Message, AudioMessage,
                   UnreadMessage, call_log, response, running>>

on_call_chat_clear(sid, room, sender) ==
    /\ sid \in connected
    /\ emits' = RelayToOthers("call_chat_clear", sid, room, sender, [from |-> sender])
    /\ ret' = RetNone
    /\ UNCHANGED <<connected, online_users, active_tokens, members, Message, AudioMessage,
                   UnreadMessage, call_log, response, running>>

on_send_notification(sid, room, sender) ==
    /\ sid \in connected
    /\ emits' = RelayToOthers("receive_notification", sid, room, sender,
                                [from |-> sender, room |-> room])
    /\ ret' = RetNone
    /\ UNCHANGED <<connected, online_users, active_tokens, members, Message, AudioMessage,
                   UnreadMessage, call_log, response, running>>

\* if not room or not sender or not color: return
on_send_color(sid, room, sender, color) ==
    /\ sid \in connected
    /\ emits' = IF Truthy(color)
                  THEN RelayToOthers("receive_color", sid, room, sender,
                                     [from |-> sender, room |-> room, color |-> color])
                  ELSE <<>>
    /\ ret' = RetNone
    /\ UNCHANGED <<connected, online_users, active_tokens, members, Message, AudioMessage,
                   UnreadMessage, call_log, response, running>>

on_reset_bg_color(sid, room, sender) ==
    /\ sid \in connected
    /\ emits' = RelayToOthers("receive_reset_bg_color", sid, room, sender,
                                [from |-> sender, room |-> room])
    /\ ret' = RetNone
    /\ UNCHANGED <<connected, online_users, active_tokens, members, Message, AudioMessage,
                   UnreadMessage, call_log, response, running>>

\* ---------------------------------------------------------------- reactions

\* A Python dict username -> emoji is the sequence of its items, in insertion
\* order; `username in reactions`.
ReactionsHas(d, username) == \E i \in 1..Len(d) : d[i].k = username

\* reactions[username] = emoji: an existing key keeps its place.
ReactionsPut(d, username, emoji) ==
    IF ReactionsHas(d, username)
    THEN [i \in 1..Len(d) |-> IF d[i].k = username THEN [k |-> username, v |-> emoji] ELSE d[i]]
    ELSE Append(d, [k |-> username, v |-> emoji])

\* del reactions[username]
ReactionsDel(d, username) == SelectSeq(d, LAMBDA it : it.k # username)

\* json.dumps(reactions_dict): "{" k ":" v { "," k ":" v } "}".
RECURSIVE DumpItems(_)
DumpItems(d) ==
    IF d = <<>> THEN <<>>
    ELSE <<d[1].k, ":", d[1].v>>
         \o (IF Len(d) > 1 THEN <<",">> \o DumpItems(Tail(d)) ELSE <<>>)

set_reactions(reactions_dict) == <<"{">> \o DumpItems(reactions_dict) \o <<"}">>

\* json.loads on the lexemes between the braces: the dict read so far, or a
\* failure when the text is not a list of items.
RECURSIVE LoadItems(_, _)
LoadItems(t, acc) ==
    IF Len(t) < 3 \/ t[2] # ":" THEN [ok |-> FALSE, d |-> <<>>]
    ELSE LET d == ReactionsPut(acc, t[1], t[3])
         IN  IF Len(t) = 3 THEN [ok |-> TRUE, d |-> d]
             ELSE IF t[4] # "," THEN [ok |-> FALSE, d |-> <<>>]
             ELSE LoadItems(SubSeq(t, 5, Len(t)), d)

json_loads(text) ==
    IF Len(text) < 2 \/ text[1] # "{" \/ text[Len(text)] # "}"
    THEN [ok |-> FALSE, d |-> <<>>]
    ELSE IF Len(text) = 2 THEN [ok |-> TRUE, d |-> <<>>]
    ELSE LoadItems(SubSeq(text, 2, Len(text) - 1), <<>>)

\* get_reactions: json.loads(self.reactions) if self.reactions else {}, and {}
\* when the text does not parse.
get_reactions(row) ==
    IF row.reactions = <<>> THEN <<>>
    ELSE IF json_loads(row.reactions).ok THEN json_loads(row.reactions).d
    ELSE <<>>

\* The id of "no message": a missing message_id field.
NoId == 0

\* AudioMessage.query.get(id) / Message.query.get(id) finds a row.
HasRow(T, message_id) == message_id \in 1..Len(T)

\* Which table react_message works on: AudioMessage is looked up first.
ReactTable(M, A, message_id) ==
    IF HasRow(A, message_id) THEN "audio"
    ELSE IF HasRow(M, message_id) THEN "text"
    ELSE None

\* Which table remove_reaction works on: Message is looked up first.
RemoveTable(M, A, message_id) ==
    IF HasRow(M, message_id) THEN "text"
    ELSE IF HasRow(A, message_id) THEN "audio"
    ELSE None

\* jsonify(...), code: the HTTP answer; reactions is the mapping it reports.
Response(code, reactions) == [code |-> code, reactions |-> reactions]

\* socketio.emit('message_reactions_updated', {...}, room=room)
ReactionsUpdated(room, message_id, reactions) ==
    IF room # NoRoom
    THEN <<Emit("message_reactions_updated", ToRoom(room, None),
                [message_id |-> message_id, reactions |-> reactions])>>
    ELSE <<>>

\* Mutant of ReactEffect: an unknown id is answered 404 but still broadcast.
ReactEffectBroadcastsUnknown(M, A, message_id, emoji, username) ==
    IF ReactTable(M, A, message_id) = None
    THEN [M |-> M, A |-> A, response |-> Response(404, <<>>),
          emits |-> ReactionsUpdated(RoomAB, message_id, <<>>)]
    ELSE [M |-> M, A |-> A, response |-> Response(200, <<>>), emits |-> <<>>]

\* react_message on tables M, A: the new tables, the answer and the events.
ReactEffect(M, A, message_id, emoji, username) ==
    IF message_id = NoId \/ ~Truthy(emoji) \/ ~Truthy(username)
    THEN [M |-> M, A |-> A, response |-> Response(400, <<>>), emits |-> <<>>]
    ELSE IF ReactTable(M, A, message_id) = "audio"
    THEN LET reactions == ReactionsPut(get_reactions(A[message_id]), username, emoji)
         IN  [M |-> M,
              A |-> [A EXCEPT ![message_id].reactions = set_reactions(reactions)],
              response |-> Response(200, reactions),
              emits |-> ReactionsUpdated(A[message_id].room, message_id, reactions)]
    ELSE IF ReactTable(M, A, message_id) = "text"
    THEN LET reactions == ReactionsPut(get_reactions(M[message_id]), username, emoji)
         IN  [M |-> [M EXCEPT ![message_id].reactions = set_reactions(reactions)],
              A |-> A,
              response |-> Response(200, reactions),
              emits |-> ReactionsUpdated(M[message_id].room, message_id, reactions)]
    ELSE [M |-> M, A |-> A, response |-> Response(404, <<>>), emits |-> <<>>]

\* POST /react_message
react_message(message_id, emoji, username) ==
    LET eff == ReactEffect(Message, AudioMessage, message_id, emoji, username)
    IN  /\ Message' = eff.M
        /\ AudioMessage' = eff.A
        /\ response' = eff.response
        /\ emits' = eff.emits
        /\ ret' = RetNone
        /\ UNCHANGED <<connected, online_users, active_tokens, members, UnreadMessage,
                       call_log, running>>

\* The table remove_reaction found the row in, as a sequence of rows.
RemoveRows(M, A, message_id) ==
    IF RemoveTable(M, A, message_id) = "text" THEN M ELSE A

\* remove_reaction on tables M, A. `room` is assigned only inside
\* `if username in reactions:`; without the key, `if room:` reads an unbound
\* local, the view raises and the client gets a 500 with nothing broadcast.
RemoveEffect(M, A, message_id, username) ==
    IF message_id = NoId \/ ~Truthy(username)
    THEN [M |-> M, A |-> A, response |-> Response(400, <<>>), emits |-> <<>>]
    ELSE IF RemoveTable(M, A, message_id) = None
    THEN [M |-> M, A |-> A, response |-> Response(404, <<>>), emits |-> <<>>]
    ELSE LET T == RemoveRows(M, A, message_id)
             before == get_reactions(T[message_id])
             reactions == ReactionsDel(before, username)
             T2 == [T EXCEPT ![message_id].reactions = set_reactions(reactions)]
         IN  IF ReactionsHas(before, username)
             THEN [M |-> IF RemoveTable(M, A, message_id) = "text" THEN T2 ELSE M,
                   A |-> IF RemoveTable(M, A, message_id) = "audio" THEN T2 ELSE A,
                   response |-> Response(200, reactions),
                   emits |-> ReactionsUpdated(T[message_id].room, message_id, reactions)]
             ELSE [M |-> M, A |-> A, response |-> Response(500, <<>>), emits |-> <<>>]

\* POST /remove_reaction
remove_reaction(message_id, username) ==
    LET eff == RemoveEffect(Message, AudioMessage, message_id, username)
    IN  /\ Message' = eff.M
        /\ AudioMessage' = eff.A
        /\ response' = eff.response
        /\ emits' = eff.emits
        /\ ret' = RetNone
        /\ UNCHANGED <<connected, online_users, active_tokens, members, UnreadMessage,
                       call_log, running>>

\* The connections an emit reaches: the addressed connection, the members of
\* the addressed room without the skipped one, or every connection.
MembersOf(room) == IF room \in DOMAIN members THEN members[room] ELSE {}

\* Mutant of Receivers: a room reaches only its registered connections.
ReceiversRegistered(e) ==
    IF e.to.kind = "sid" THEN {e.to.sid} \cap connected
    ELSE IF e.to.kind = "room"
         THEN {sid \in MembersOf(e.to.room) \ {e.to.skip} : DictHas(online_users, sid)}
    ELSE connected

Receivers(e) ==
    IF e.to.kind = "sid" THEN {e.to.sid} \cap connected
    ELSE IF e.to.kind = "room" THEN MembersOf(e.to.room) \ {e.to.skip}
    ELSE connected

\* ------------------------------------------- handlers that only store

\* call_chat_message: the row is stored with the column default (sent), the
\* event goes to the room without the caller, and every registered connection
\* of another user gets a global notification.
on_call_chat_message(sid, room, message, sender) ==
    /\ sid \in connected
    /\ IF room = NoRoom \/ ~Truthy(message) \/ ~Truthy(sender)
       THEN /\ emits' = <<>>
            /\ UNCHANGED Message
       ELSE /\ Len(Message) + Len(AudioMessage) < MaxRows
            /\ Message' = Append(Message, NewRow(room, sender))
            /\ emits' = <<Emit("call_chat_message", ToRoom(room, sid), [from |-> sender])>>
                        \o GlobalNotifications(room, sender, "text")
    /\ ret' = RetNone
    /\ UNCHANGED <<connected, online_users, active_tokens, members, AudioMessage,
                   UnreadMessage, call_log, response, running>>

\* message, behind jwt_required: the sender is the identity of the token of
\* the request; the row is stored and the event goes to the whole room.
handle_message(sid, token, room, message_content) ==
    /\ sid \in connected
    /\ token \in Tokens
    /\ IF room = NoRoom \/ ~Truthy(message_content)
       THEN /\ emits' = <<>>
            /\ UNCHANGED Message
       ELSE /\ Len(Message) + Len(AudioMessage) < MaxRows
            /\ Message' = Append(Message, NewRow(room, TokenIdentity(token)))
            /\ emits' = <<Emit("message", ToRoom(room, None),
                               [sender |-> TokenIdentity(token),
                                message_id |-> Len(Message) + 1])>>
    /\ ret' = RetNone
    /\ UNCHANGED <<connected, online_users, active_tokens, members, AudioMessage,
                   UnreadMessage, call_log, response, running>>

\* send_file for an uploaded file: the token of the payload is decoded for
\* the sender; the row is stored and the event goes to the room without the
\* caller.
handle_send_file(sid, token, room) ==
    /\ sid \in connected
    /\ IF ~Truthy(token) \/ token \notin Tokens \/ room = NoRoom
       THEN /\ emits' = <<>>
            /\ UNCHANGED Message
       ELSE /\ Len(Message) + Len(AudioMessage) < MaxRows
            /\ Message' = Append(Message, NewRow(room, TokenIdentity(token)))
            /\ emits' = <<Emit("file_message", ToRoom(room, sid),
                               [sender |-> TokenIdentity(token),
                                message_id |-> Len(Message) + 1])>>
    /\ ret' = RetNone
    /\ UNCHANGED <<connected, online_users, active_tokens, members, AudioMessage,
                   UnreadMessage, call_log, response, running>>

\* ------------------------------------------------- handlers, step by step

\* to_remove, as the list of connection ids.
to_remove(d, sid, username) ==
    LET old == SelectSeq(d, LAMBDA e : e.uname = username /\ e.sid # sid)
    IN  [i \in 1..Len(old) |-> old[i].sid]

\* on_register up to the list comprehension: the fields and the token are
\* accepted and to_remove is computed from the registry as it is now.
on_register_scan(c, sid, username, token) ==
    /\ sid \in connected
    /\ running[c].pc = "idle"
    /\ Truthy(username) /\ Truthy(token) /\ TokenAccepted(token, username)
    /\ running' = [running EXCEPT ![c] =
                      [Idle EXCEPT !.pc = "evict", !.sid = sid, !.username = username,
                                   !.pending = to_remove(online_users, sid, username)]]
    /\ emits' = <<>>
    /\ ret' = RetNone
    /\ UNCHANGED <<connected, online_users, active_tokens, members, Message, AudioMessage,
                   UnreadMessage, call_log, response>>

\* One round of `for s in to_remove: del online_users[s]`; when the entry is
\* gone already the del raises KeyError and the handler ends there.
on_register_del(c) ==
    /\ running[c].pc = "evict"
    /\ running[c].pending # <<>>
    /\ IF DictHas(online_users, Head(running[c].pending))
       THEN /\ online_users' = DictDel(online_users, Head(running[c].pending))
            /\ running' = [running EXCEPT ![c].pending = Tail(@)]
       ELSE /\ online_users' = online_users
            /\ running' = [running EXCEPT ![c] = Idle]
    /\ emits' = <<>>
    /\ ret' = RetNone
    /\ UNCHANGED <<connected, active_tokens, members, Message, AudioMessage,
                   UnreadMessage, call_log, response>>

\* online_users[sid] = username
on_register_set(c) ==
    /\ running[c].pc = "evict"
    /\ running[c].pending = <<>>
    /\ online_users' = DictSet(online_users, running[c].sid, running[c].username)
    /\ running' = [running EXCEPT ![c].pc = "announce"]
    /\ emits' = <<>>
    /\ ret' = RetNone
    /\ UNCHANGED <<connected, active_tokens, members, Message, AudioMessage,
                   UnreadMessage, call_log, response>>

\* update_delivery_status_for_user(username); broadcast_user_list(); return True
on_register_announce(c) ==
    /\ running[c].pc = "announce"
    /\ LET upd == update_delivery_status_for_user(running[c].username, online_users)
       IN  /\ Message' = upd.M
           /\ AudioMessage' = upd.A
           /\ emits' = upd.emits \o BroadcastUserList(online_users)
    /\ running' = [running EXCEPT ![c] = Idle]
    /\ ret' = RetTrue
    /\ UNCHANGED <<connected, online_users, active_tokens, members, UnreadMessage,
                   call_log, response>>

\* mark_seen up to the loop: the fields are accepted.
mark_seen_begin(c, message_ids, current_user, room) ==
    /\ connected # {}
    /\ running[c].pc = "idle"
    /\ message_ids # <<>> /\ Truthy(current_user)
    /\ running' = [running EXCEPT ![c] =
                      [Idle EXCEPT !.pc = "scan", !.username = current_user,
                                   !.room = room, !.pending = message_ids]]
    /\ emits' = <<>>
    /\ ret' = RetNone
    /\ UNCHANGED <<connected, online_users, active_tokens, members, Message, AudioMessage,
                   UnreadMessage, call_log, response>>

\* Table T as the session of an invocation sees it: the committed rows, with
\* the rows the invocation has set to seen and not committed yet.
SessionView(T, type, updated) ==
    [i \in 1..Len(T) |->
        IF \E k \in 1..Len(updated) : updated[k].id = i /\ updated[k].type = type
        THEN [T[i] EXCEPT !.status = "seen"]
        ELSE T[i]]

\* One round of the loop of mark_seen: query.get on both tables, the test,
\* msg.status = 'seen' in the session, updated_messages.append.
mark_seen_get(c) ==
    /\ running[c].pc = "scan"
    /\ running[c].pending # <<>>
    /\ LET st == MarkOne([M |-> SessionView(Message, "text", running[c].updated),
                          A |-> SessionView(AudioMessage, "audio", running[c].updated),
                          updated |-> running[c].updated],
                         Head(running[c].pending), running[c].username)
       IN  running' = [running EXCEPT ![c].pending = Tail(@), ![c].updated = st.updated]
    /\ emits' = <<>>
    /\ ret' = RetNone
    /\ UNCHANGED <<connected, online_users, active_tokens, members, Message, AudioMessage,
                   UnreadMessage, call_log, response>>

\* if updated_messages: db.session.commit(); otherwise the handler returns.
mark_seen_commit(c) ==
    /\ running[c].pc = "scan"
    /\ running[c].pending = <<>>
    /\ Message' = SessionView(Message, "text", running[c].updated)
    /\ AudioMessage' = SessionView(AudioMessage, "audio", running[c].updated)
    /\ running' = [running EXCEPT ![c] =
                      IF running[c].updated = <<>> THEN Idle
                      ELSE [running[c] EXCEPT !.pc = "notify"]]
    /\ emits' = <<>>
    /\ ret' = RetNone
    /\ UNCHANGED <<connected, online_users, active_tokens, members, UnreadMessage,
                   call_log, response>>

\* The notification loop and the reset of the unread counter.
mark_seen_notify(c) ==
    /\ running[c].pc = "notify"
    /\ LET es == NotifySenders("messages_seen", running[c].updated,
                               SendersFrom(running[c].updated, 1, <<>>), online_users,
                               running[c].username, running[c].room)
       IN  /\ emits' = es
           /\ running' = [running EXCEPT ![c].pc = "done", ![c].out = es]
    /\ UnreadMessage' =
           IF ClearsUnread(running[c].updated, running[c].room)
           THEN ResetUnread(UnreadMessage, running[c].username, running[c].room)
           ELSE UnreadMessage
    /\ ret' = RetNone
    /\ UNCHANGED <<connected, online_users, active_tokens, members, Message, AudioMessage,
                   call_log, response>>

\* The handler returns.
mark_seen_return(c) ==
    /\ running[c].pc = "done"
    /\ running' = [running EXCEPT ![c] = Idle]
    /\ emits' = <<>>
    /\ ret' = RetNone
    /\ UNCHANGED <<connected, online_users, active_tokens, members, Message, AudioMessage,
                   UnreadMessage, call_log, response>>

\* on_send_chat_message up to the first commit: the row is stored as sent.
on_send_insert(c, room, message, sender) ==
    /\ connected # {}
    /\ running[c].pc = "idle"
    /\ room # NoRoom /\ Truthy(message) /\ Truthy(sender)
    /\ Len(Message) + Len(AudioMessage) < MaxRows
    /\ Message' = Append(Message, NewRow(room, sender))
    /\ running' = [running EXCEPT ![c] =
                      [Idle EXCEPT !.pc = "recipients", !.username = sender,
                                   !.room = room, !.id = Len(Message) + 1]]
    /\ emits' = <<>>
    /\ ret' = RetNone
    /\ UNCHANGED <<connected, online_users, active_tokens, members, AudioMessage,
                   UnreadMessage, call_log, response>>

\* What the session holds for the counter of (recipient, room) after
\* `unread = ...first()` and the branch that follows: the row read (0 when a
\* new row is added) and the count computed from the value read.
UnreadWrite(T, recipient, room) ==
    [username |-> recipient, room |-> room,
     row |-> UnreadFirst(T, recipient, room),
     count |-> UnreadCount(T, recipient, room) + 1]

\* The recipients loop: get_user_sid and the unread counter are read, the
\* new counts are kept in the session.
on_send_recipients(c) ==
    /\ running[c].pc = "recipients"
    /\ LET delivered_to_recipients == DeliveredTo(running[c].room, running[c].username)
       IN  running' = [running EXCEPT
               ![c].pc = "deliver",
               ![c].pending = delivered_to_recipients,
               ![c].updated = [i \in 1..Len(delivered_to_recipients) |->
                                  UnreadWrite(UnreadMessage, delivered_to_recipients[i],
                                              running[c].room)]]
    /\ emits' = <<>>
    /\ ret' = RetNone
    /\ UNCHANGED <<connected, online_users, active_tokens, members, Message, AudioMessage,
                   UnreadMessage, call_log, response>>

\* The flush of the unread rows of a session: INSERT for a new row, UPDATE
\* ... SET count = <the count computed in the handler> for a row read.
RECURSIVE FlushUnread(_, _)
FlushUnread(T, writes) ==
    IF writes = <<>> THEN T
    ELSE LET w == Head(writes)
         IN  FlushUnread(IF w.row = 0
                         THEN Append(T, [username |-> w.username, room |-> w.room,
                                         count |-> w.count])
                         ELSE [T EXCEPT ![w.row].count = w.count],
                         Tail(writes))

\* if delivered_to_recipients: msg_obj.status = 'delivered'; db.session.commit()
on_send_deliver(c) ==
    /\ running[c].pc = "deliver"
    /\ IF running[c].pending # <<>>
       THEN /\ Message' = [Message EXCEPT ![running[c].id].status = "delivered"]
            /\ UnreadMessage' = FlushUnread(UnreadMessage, running[c].updated)
       ELSE UNCHANGED <<Message, UnreadMessage>>
    /\ running' = [running EXCEPT ![c].pc = "emit"]
    /\ emits' = <<>>
    /\ ret' = RetNone
    /\ UNCHANGED <<connected, online_users, active_tokens, members, AudioMessage,
                   call_log, response>>

\* message_delivered, receive_chat_message (with msg_obj.status as stored
\* now) and the global notifications; the handler returns.
on_send_emit(c) ==
    /\ running[c].pc = "emit"
    /\ emits' = DeliveredNotice(running[c].id, running[c].username, running[c].pending, "text")
                \o RoomBroadcast("receive_chat_message", running[c].room, running[c].username,
                                 running[c].id, Message[running[c].id].status,
                                 running[c].pending)
                \o GlobalNotifications(running[c].room, running[c].username, "text")
    /\ running' = [running EXCEPT ![c] = Idle]
    /\ ret' = RetNone
    /\ UNCHANGED <<connected, online_users, active_tokens, members, Message, AudioMessage,
                   UnreadMessage, call_log, response>>

\* ------------------------------------------------ a commit that fails

\* No handler catches the exception db.session.commit() raises when the store
\* rejects the write: the handler ends at that line, what the failed
\* transaction held is not stored, and what was committed or emitted before
\* it stays.

\* The second commit of on_send_chat_message (line 1261) fails: the row stays
\* as the first commit stored it and nothing is emitted.
on_send_deliver_fails(c) ==
    /\ running[c].pc = "deliver"
    /\ running[c].pending # <<>>
    /\ running' = [running EXCEPT ![c] = Idle]
    /\ emits' = <<>>
    /\ ret' = RetNone
    /\ UNCHANGED <<connected, online_users, active_tokens, members, Message, AudioMessage,
                   UnreadMessage, call_log, response>>

\* The commit of the statuses in mark_seen (line 1337) fails.
mark_seen_commit_fails(c) ==
    /\ running[c].pc = "scan"
    /\ running[c].pending = <<>>
    /\ running[c].updated # <<>>
    /\ running' = [running EXCEPT ![c] = Idle]
    /\ emits' = <<>>
    /\ ret' = RetNone
    /\ UNCHANGED <<connected, online_users, active_tokens, members, Message, AudioMessage,
                   UnreadMessage, call_log, response>>

\* The commit of the unread reset in mark_seen (line 1362) fails: the statuses
\* are stored and the senders have been notified, the counter is not reset.
mark_seen_notify_fails(c) ==
    /\ running[c].pc = "notify"
    /\ ClearsUnread(running[c].updated, running[c].room)
    /\ UnreadFirst(UnreadMessage, running[c].username, running[c].room) # 0
    /\ emits' = NotifySenders("messages_seen", running[c].updated,
                              SendersFrom(running[c].updated, 1, <<>>), online_users,
                              running[c].username, running[c].room)
    /\ running' = [running EXCEPT ![c] = Idle]
    /\ ret' = RetNone
    /\ UNCHANGED <<connected, online_users, active_tokens, members, Message, AudioMessage,
                   UnreadMessage, call_log, response>>

\* The commit of update_delivery_status_for_user (line 1930) fails inside
\* on_register: no row is promoted, no sender is told, and the roster is not
\* broadcast although the registry holds the new entry.
on_register_announce_fails(c) ==
    /\ running[c].pc = "announce"
    /\ DeliveryUpdates(Message, AudioMessage, RoomsOf(Message, running[c].username),
                       running[c].username) # <<>>
    /\ running' = [running EXCEPT ![c] = Idle]
    /\ emits' = <<>>
    /\ ret' = RetNone
    /\ UNCHANGED <<connected, online_users, active_tokens, members, Message, AudioMessage,
                   UnreadMessage, call_log, response>>

\* ------------------------------------------------------------------ inputs

RegisterNames == Users \cup {None}

RegisterTokens == Tokens \cup {None}

\* Who writes to which room: bob and carol each write to their room with alice.
SendCases == {<<RoomAB, "bob">>, <<RoomAC, "carol">>}

\* Audio messages are bob's.
AudioCases == {<<RoomAB, "bob">>}

\* Batches of ids a client may acknowledge; an id is unknown while its table
\* holds fewer rows.
Batches == {<<1>>, <<2>>, <<1, 2>>}

\* Viewers of mark_seen and join: the recipient alice, and bob, who is the
\* sender in one room and an outsider to the other.
Viewers == {"alice", "bob"}

\* Presence: every presence event with every input, and no messages.
Next ==
    \/ \E token \in Tokens : login_post(token)
    \/ \E token \in Tokens : logout(token)
    \/ \E sid \in Sids : on_connect(sid)
    \/ \E sid \in Sids : on_disconnect(sid)
    \/ \E sid \in Sids, username \in RegisterNames, token \in RegisterTokens :
           on_register(sid, username, token)

Spec == Init /\ [][Next]_vars

\* Delivery: alice and bob have logged in, each on a device of their own, and
\* register there with their own token.
Devices == {<<"s1", "tok_alice">>, <<"s2", "tok_bob">>}

InitDelivery ==
    /\ connected = {}
    /\ online_users = <<>>
    /\ active_tokens = Tokens
    /\ members = [room \in Rooms |-> {}]
    /\ Message = <<>>
    /\ AudioMessage = <<>>
    /\ UnreadMessage = <<>>
    /\ emits = <<>>
    /\ ret = RetNone
    /\ call_log = {}
    /\ response = NoResponse
    /\ running = [c \in Calls |-> Idle]

NextDelivery ==
    \/ \E sid \in Sids : on_connect(sid)
    \/ \E sid \in Sids : on_disconnect(sid)
    \/ \E dev \in Devices : on_register(dev[1], TokenIdentity(dev[2]), dev[2])
    \/ on_join("s1", RoomAB, "alice")
    \/ \E c \in SendCases : on_send_chat_message(c[1], "hi", c[2])
    \/ \E c \in AudioCases : on_audio_message(c[1], c[2])
    \/ \E message_ids \in Batches, current_user \in Viewers, room \in {RoomAB, NoRoom} :
           mark_seen(message_ids, current_user, room)

SpecDelivery == InitDelivery /\ [][NextDelivery]_vars

\* Reactions: bob writes text and audio messages to his room with alice, whose
\* device has joined it; alice and bob react to them and take reactions back.
\* Ids a client may name: the first id of either table, an id that no table
\* can hold, and none.
UnknownId == MaxRows + 1

ReactIds == {1, UnknownId, NoId}

Emojis == {"heart", "thumb", None}

Reactors == {"alice", "bob", None}

NextReaction ==
    \/ on_connect("s1")
    \/ on_join("s1", RoomAB, "alice")
    \/ on_send_chat_message(RoomAB, "hi", "bob")
    \/ on_audio_message(RoomAB, "bob")
    \/ \E message_id \in ReactIds, emoji \in Emojis, username \in Reactors :
           react_message(message_id, emoji, username)
    \/ \E message_id \in ReactIds, username \in Reactors :
           remove_reaction(message_id, username)

SpecReaction == InitDelivery /\ [][NextReaction]_vars

\* Concurrent registrations: alice is logged in on both devices, which
\* connect, disconnect and register her, two registrations at a time.
NextRegisterRace ==
    \/ \E sid \in Sids : on_connect(sid)
    \/ \E sid \in Sids : on_disconnect(sid)
    \/ \E c \in Calls, sid \in Sids : on_register_scan(c, sid, "alice", "tok_alice")
    \/ \E c \in Calls : on_register_del(c)
    \/ \E c \in Calls : on_register_set(c)
    \/ \E c \in Calls : on_register_announce(c)

SpecRegisterRace == InitDelivery /\ [][NextRegisterRace]_vars

\* Concurrent acknowledgements: bob, registered on his device, writes to his
\* room with alice, whose client acknowledges the messages, two calls at a time.
SeenRaceBatches == {<<1>>, <<1, 2>>}

NextSeenRace ==
    \/ on_connect("s2")
    \/ on_register("s2", "bob", "tok_bob")
    \/ on_send_chat_message(RoomAB, "hi", "bob")
    \/ \E c \in Calls, message_ids \in SeenRaceBatches :
           mark_seen_begin(c, message_ids, "alice", RoomAB)
    \/ \E c \in Calls : mark_seen_get(c)
    \/ \E c \in Calls : mark_seen_commit(c)
    \/ \E c \in Calls : mark_seen_notify(c)
    \/ \E c \in Calls : mark_seen_return(c)

SpecSeenRace == InitDelivery /\ [][NextSeenRace]_vars

\* Concurrent sends: alice is registered on her device and stays; bob
\* connects, registers and writes to their room, two messages at a time.
InitOnline ==
    /\ connected = {"s1"}
    /\ online_users = <<[sid |-> "s1", uname |-> "alice"]>>
    /\ active_tokens = Tokens
    /\ members = [room \in Rooms |-> {}]
    /\ Message = <<>>
    /\ AudioMessage = <<>>
    /\ UnreadMessage = <<>>
    /\ emits = <<>>
    /\ ret = RetNone
    /\ call_log = {}
    /\ response = NoResponse
    /\ running = [c \in Calls |-> Idle]

NextSendRace ==
    \/ on_connect("s2")
    \/ on_register("s2", "bob", "tok_bob")
    \/ \E c \in Calls : on_send_insert(c, RoomAB, "hi", "bob")
    \/ \E c \in Calls : on_send_recipients(c)
    \/ \E c \in Calls : on_send_deliver(c)
    \/ \E c \in Calls : on_send_emit(c)

SpecSendRace == InitOnline /\ [][NextSendRace]_vars

\* A send against an acknowledgement: alice is online; while bob's message is
\* being sent her client acknowledges it, or she registers again.
NextSendSeen ==
    \/ on_connect("s2")
    \/ on_register("s1", "alice", "tok_alice")
    \/ \E c \in Calls : on_send_insert(c, RoomAB, "hi", "bob")
    \/ \E c \in Calls : on_send_recipients(c)
    \/ \E c \in Calls : on_send_deliver(c)
    \/ \E c \in Calls : on_send_emit(c)
    \/ \E message_ids \in Batches : mark_seen(message_ids, "alice", RoomAB)

SpecSendSeen == InitOnline /\ [][NextSendSeen]_vars

\* Write failures: bob is online and writes to his room with alice, who
\* registers (from her one device, so that nothing is evicted) and
\* acknowledges; any commit after the first may fail.
NextWriteFailure ==
    \/ \E sid \in Sids : on_connect(sid)
    \/ on_register("s2", "bob", "tok_bob")
    \/ on_register_scan("c1", "s1", "alice", "tok_alice")
    \/ on_register_set("c1")
    \/ on_register_announce("c1")
    \/ on_register_announce_fails("c1")
    \/ on_send_insert("c1", RoomAB, "hi", "bob")
    \/ on_send_recipients("c1")
    \/ on_send_deliver("c1")
    \/ on_send_deliver_fails("c1")
    \/ on_send_emit("c1")
    \/ mark_seen_begin("c1", <<1>>, "alice", RoomAB)
    \/ mark_seen_get("c1")
    \/ mark_seen_commit("c1")
    \/ mark_seen_commit_fails("c1")
    \/ mark_seen_notify("c1")
    \/ mark_seen_notify_fails("c1")
    \/ mark_seen_return("c1")

SpecWriteFailure == InitDelivery /\ [][NextWriteFailure]_vars

\* Stored only: alice and bob come and go on their devices; bob writes to
\* their room in a call chat, as a plain message or as a file; alice's client
\* acknowledges.
NextStore ==
    \/ \E sid \in Sids : on_connect(sid)
    \/ \E sid \in Sids : on_disconnect(sid)
    \/ \E dev \in Devices : on_register(dev[1], TokenIdentity(dev[2]), dev[2])
    \/ on_call_chat_message("s2", RoomAB, "hi", "bob")
    \/ handle_message("s2", "tok_bob", RoomAB, "hi")
    \/ handle_send_file("s2", "tok_bob", RoomAB)
    \/ mark_seen(<<1>>, "alice", RoomAB)

SpecStore == InitDelivery /\ [][NextStore]_vars

\* Membership: alice registers on either device, the later registration
\* evicting the earlier; her devices join and leave her room with bob, who
\* writes to it; her client acknowledges.
NextMembership ==
    \/ \E sid \in Sids : on_connect(sid)
    \/ \E sid \in Sids : on_disconnect(sid)
    \/ \E sid \in Sids : on_register(sid, "alice", "tok_alice")
    \/ \E sid \in Sids : on_join(sid, RoomAB, "alice")
    \/ \E sid \in Sids : on_leave(sid, RoomAB, "alice")
    \/ on_send_chat_message(RoomAB, "hi", "bob")
    \/ mark_seen(<<1>>, "alice", RoomAB)

SpecMembership == InitDelivery /\ [][NextMembership]_vars

\* Credentials: users log in, log out and re-validate over HTTP; their
\* devices connect, authenticate and register with the token of their user.
NextCredentials ==
    \/ \E token \in Tokens : login_post(token)
    \/ \E token \in Tokens : logout(token)
    \/ \E token \in Tokens : validate_token(token)
    \/ \E sid \in Sids : on_connect(sid)
    \/ \E sid \in Sids : on_disconnect(sid)
    \/ \E sid \in Sids, token \in RegisterTokens : on_authenticate(sid, token)
    \/ \E sid \in Sids, token \in Tokens : on_register(sid, TokenIdentity(token), token)

SpecCredentials == Init /\ [][NextCredentials]_vars

\* Call signaling: alice and bob register on their devices and join their
\* room; alice calls bob, carol (who is never online) or nobody; bob answers;
\* either side signals, ends or declines.
DeviceUser(sid) == IF sid = "s1" THEN "alice" ELSE "bob"

CallTargets == {"bob", "carol", None}

Answers == {"True", "False", None}

CallTypes == {"video", None}

SignalTargets == {"alice", "bob", "carol", None}

NextCall ==
    \/ \E sid \in Sids : on_connect(sid)
    \/ \E sid \in Sids : on_disconnect(sid)
    \/ \E dev \in Devices : on_register(dev[1], TokenIdentity(dev[2]), dev[2])
    \/ \E sid \in Sids : on_join(sid, RoomAB, DeviceUser(sid))
    \/ \E sid \in Sids : on_leave(sid, RoomAB, DeviceUser(sid))
    \/ \E target \in CallTargets : on_call_initiate(target, "video", "alice", RoomAB)
    \/ \E accepted \in Answers, call_type \in CallTypes :
           on_call_response("alice", "bob", accepted, RoomAB, call_type)
    \/ \E sid \in Sids, target \in SignalTargets :
           on_signal(sid, RoomAB, Signal(target), DeviceUser(sid))
    \/ \E sid \in Sids : on_call_ended(sid, RoomAB, DeviceUser(sid))
    \/ \E sid \in Sids : on_decline_call(sid, RoomAB, DeviceUser(sid))

SpecCall == InitDelivery /\ [][NextCall]_vars

\* Validation: events with and without their required fields, next to
\* well-formed messages that fill the tables and the counters.
MaybeRooms == {RoomAB, NoRoom}

SendMessages == {"hi", "", None}

SendSenders == {"bob", None}

SeenBatches == {<<1>>, <<>>}

SeenViewers == {"alice", None}

RelaySenders == {"alice", None}

Signals == {Signal(None), Signal("bob"), NoSignal}

Colors == {"red", None}

NextValidation ==
    \/ \E sid \in Sids : on_connect(sid)
    \/ \E sid \in Sids : on_disconnect(sid)
    \/ \E dev \in Devices : on_register(dev[1], TokenIdentity(dev[2]), dev[2])
    \/ \E room \in MaybeRooms, message \in SendMessages, sender \in SendSenders :
           on_send_chat_message(room, message, sender)
    \/ \E message_ids \in SeenBatches, current_user \in SeenViewers :
           mark_seen(message_ids, current_user, RoomAB)
    \/ \E sid \in Sids, room \in MaybeRooms, signal_data \in Signals, sender \in RelaySenders :
           on_signal(sid, room, signal_data, sender)
    \/ \E sid \in Sids, room \in MaybeRooms, sender \in RelaySenders :
           on_live_typing(sid, room, sender, "h")
    \/ \E sid \in Sids, room \in MaybeRooms, sender \in RelaySenders :
           on_call_chat_typing(sid, room, sender, "h")
    \/ \E sid \in Sids, room \in MaybeRooms, sender \in RelaySenders :
           on_call_chat_clear(sid, room, sender)
    \/ \E sid \in Sids, room \in MaybeRooms, sender \in RelaySenders :
           on_send_notification(sid, room, sender)
    \/ \E sid \in Sids, room \in MaybeRooms, sender \in RelaySenders, color \in Colors :
           on_send_color(sid, room, sender, color)
    \/ \E sid \in Sids, room \in MaybeRooms, sender \in RelaySenders :
           on_reset_bg_color(sid, room, sender)

SpecValidation == InitDelivery /\ [][NextValidation]_vars

\* Relays: alice and bob register on their devices, join and leave their
\* room, bob writes to it, and either device sends each of the relayed events
\* with all its fields.
NextRelay ==
    \/ \E sid \in Sids : on_connect(sid)
    \/ \E sid \in Sids : on_disconnect(sid)
    \/ \E dev \in Devices : on_register(dev[1], TokenIdentity(dev[2]), dev[2])
    \/ \E sid \in Sids : on_join(sid, RoomAB, DeviceUser(sid))
    \/ \E sid \in Sids : on_leave(sid, RoomAB, DeviceUser(sid))
    \/ on_send_chat_message(RoomAB, "hi", "bob")
    \/ \E sid \in Sids : on_live_typing(sid, RoomAB, DeviceUser(sid), "h")
    \/ \E sid \in Sids : on_call_chat_typing(sid, RoomAB, DeviceUser(sid), "h")
    \/ \E sid \in Sids : on_call_chat_clear(sid, RoomAB, DeviceUser(sid))
    \/ \E sid \in Sids : on_send_notification(sid, RoomAB, DeviceUser(sid))
    \/ \E sid \in Sids : on_send_color(sid, RoomAB, DeviceUser(sid), "red")
    \/ \E sid \in Sids : on_reset_bg_color(sid, RoomAB, DeviceUser(sid))
    \/ \E sid \in Sids : on_call_ended(sid, RoomAB, DeviceUser(sid))
    \/ \E sid \in Sids : on_decline_call(sid, RoomAB, DeviceUser(sid))

SpecRelay == InitDelivery /\ [][NextRelay]_vars

\* ------------------------------------------------------------------ claims

Resolve(d, username) == UserSidIn(d, username)

\* Some participant of room other than sender is resolvable in the registry.
SomeRecipientOnline(room, sender) ==
    \E p \in Range(split(room)) \ {sender} : get_user_sid(p) # None

\* Ids of the rows of T that wait for username: sent, by someone else, in a
\* room that names username.
PendingFor(T, username) ==
    {i \in 1..Len(T) : /\ T[i].status = "sent"
                       /\ T[i].sender # username
                       /\ username \in Range(split(T[i].room))}

\* Ids of the rows of sender that go from a status other than seen in T to seen in T2.
BecameSeen(T, T2, sender) ==
    {i \in 1..Len(T) : T[i].sender = sender /\ T[i].status # "seen" /\ T2[i].status = "seen"}

\* Positions in sequence es of the events named event addressed to connection sid.
EventsTo(es, event, sid) ==
    {k \in 1..Len(es) : es[k].event = event /\ es[k].to = ToSid(sid)}

\* C1: at most one connection id is mapped to a username; a successful
\* register(sid, u) makes u resolve to sid; the connection u resolves to changes
\* only by a successful register of u from the new connection, and becomes
\* absent only when the resolved connection disconnects or registers under
\* another username.
C1_OneSidPerUser ==
    \A i, j \in 1..Len(online_users) :
        online_users[i].uname = online_users[j].uname => i = j

C1_ResolveStep ==
    \A username \in Users :
        LET before == Resolve(online_users, username)
            after == Resolve(online_users', username)
        IN  /\ \A sid \in Sids, token \in Tokens :
                   (on_register(sid, username, token) /\ ret' = RetTrue) => after = sid
            /\ (after # before /\ after # None) =>
                   \E token \in Tokens : on_register(after, username, token) /\ ret' = RetTrue
            /\ (after # before /\ after = None) =>
                   \/ on_disconnect(before)
                   \/ \E other \in Users \ {username}, token \in Tokens :
                          on_register(before, other, token) /\ ret' = RetTrue

C1_LastRegistrationWins == []C1_OneSidPerUser /\ [][C1_ResolveStep]_vars

\* C1 witness: alice resolves to s2 right after a successful register, while
\* s1 is still connected and holds no entry.
C1_Witness ==
    /\ ret = RetTrue
    /\ connected = Sids
    /\ get_user_sid("alice") = "s2"
    /\ ~DictHas(online_users, "s1")

\* C2: the stored status of a row never goes back to sent once it is delivered
\* or seen, and never changes once it is seen.
Monotone(old, new) ==
    /\ old \in {"delivered", "seen"} => new # "sent"
    /\ old = "seen" => new = "seen"

C2_Step ==
    /\ \A i \in 1..Len(Message) :
           i <= Len(Message') /\ Monotone(Message[i].status, Message'[i].status)
    /\ \A i \in 1..Len(AudioMessage) :
           i <= Len(AudioMessage') /\ Monotone(AudioMessage[i].status, AudioMessage'[i].status)

C2_StatusMonotonic == [][C2_Step]_vars

\* C2 witness: a registration has just promoted a row (its sender was told)
\* while a row of the same room, by someone else than the registering user,
\* is already seen.
C2_Witness ==
    \E k \in 1..Len(emits), i \in 1..Len(Message) :
        /\ emits[k].event = "messages_delivered"
        /\ Message[i].status = "seen"
        /\ Message[i].sender # emits[k].payload.by
        /\ emits[k].payload.by \in Range(split(Message[i].room))

\* C3: right after send_chat_message or audio_message, the new row is stored
\* delivered if some participant of its room other than its sender is
\* resolvable in the registry, and sent otherwise.
C3_DeliveredIffRecipientOnline ==
    \A k \in 1..Len(emits) :
        /\ emits[k].event = "receive_chat_message" =>
               LET row == Message[emits[k].payload.message_id]
               IN  /\ emits[k].payload.message_id = Len(Message)
                   /\ row.status = IF SomeRecipientOnline(row.room, row.sender)
                                   THEN "delivered" ELSE "sent"
        /\ emits[k].event = "audio_message" =>
               LET row == AudioMessage[emits[k].payload.message_id]
               IN  /\ emits[k].payload.message_id = Len(AudioMessage)
                   /\ row.status = IF SomeRecipientOnline(row.room, row.sender)
                                   THEN "delivered" ELSE "sent"

\* C3 witness: a text message has just been sent and is stored delivered.
C3_Witness ==
    \E k \in 1..Len(emits) :
        /\ emits[k].event = "receive_chat_message"
        /\ Message[emits[k].payload.message_id].status = "delivered"

\* C4 (as claimed): the counter of every recipient, online or not, grows by
\* one with each message others send to the room, a join resets it to zero,
\* and it is never negative.
C4_Step ==
    /\ \A c \in SendCases \cup AudioCases :
           (on_send_chat_message(c[1], "hi", c[2]) \/ on_audio_message(c[1], c[2])) =>
               \A u \in Range(Recipients(c[1], c[2])) :
                   UnreadCount(UnreadMessage', u, c[1]) = UnreadCounter(u, c[1]) + 1
    /\ on_join("s1", RoomAB, "alice") => UnreadCount(UnreadMessage', "alice", RoomAB) = 0

C4_UnreadCountsEveryMessage ==
    /\ [](\A i \in 1..Len(UnreadMessage) : UnreadMessage[i].count >= 0)
    /\ [][C4_Step]_vars

\* C5 (as claimed): after a successful register(username) no row of either
\* table waits for username.
C5_Step ==
    \A dev \in Devices :
        (on_register(dev[1], TokenIdentity(dev[2]), dev[2]) /\ ret' = RetTrue) =>
            /\ PendingFor(Message', TokenIdentity(dev[2])) = {}
            /\ PendingFor(AudioMessage', TokenIdentity(dev[2])) = {}

C5_RegisterPromotesEveryPendingRow == [][C5_Step]_vars

\* C6: whatever mark_seen call arrives, it sets to seen every listed row
\* authored by someone else, never changes a row authored by the viewer, and
\* each online sender gets exactly one messages_seen event, listing exactly the
\* ids of their rows that became seen in this call; nothing else is emitted.
C6_MarkSeenNotifiesSenders ==
    connected # {} =>
    \A message_ids \in Batches, viewer \in Viewers, room \in {RoomAB, NoRoom} :
        LET eff == MarkSeenEffect(Message, AudioMessage, UnreadMessage, online_users,
                                  message_ids, viewer, room)
        IN  /\ \A id \in Range(message_ids) :
                   /\ (id <= Len(Message) /\ Message[id].sender # viewer)
                          => eff.M[id].status = "seen"
                   /\ (id <= Len(AudioMessage) /\ AudioMessage[id].sender # viewer)
                          => eff.A[id].status = "seen"
            /\ \A i \in 1..Len(Message) : Message[i].sender = viewer => eff.M[i] = Message[i]
            /\ \A i \in 1..Len(AudioMessage) :
                   AudioMessage[i].sender = viewer => eff.A[i] = AudioMessage[i]
            /\ \A sender \in Users :
                   LET became == BecameSeen(Message, eff.M, sender)
                                 \cup BecameSeen(AudioMessage, eff.A, sender)
                       evs == EventsTo(eff.emits, "messages_seen", get_user_sid(sender))
                   IN  IF get_user_sid(sender) # None /\ became # {}
                       THEN /\ Cardinality(evs) = 1
                            /\ \A k \in evs : Range(eff.emits[k].payload.message_ids) = became
                       ELSE evs = {}
            /\ \A k \in 1..Len(eff.emits) :
                   /\ eff.emits[k].event = "messages_seen"
                   /\ \E sender \in Users : eff.emits[k].to = ToSid(get_user_sid(sender))

\* C6 witness: alice has just acknowledged message 1 of bob, who is online at
\* s2 and was sent the event listing it.
C6_Witness ==
    /\ Len(Message) >= 1
    /\ Message[1].sender = "bob"
    /\ Message[1].status = "seen"
    /\ \E k \in EventsTo(emits, "messages_seen", "s2") :
           emits[k].payload.message_ids = <<1>> /\ emits[k].payload.by = "alice"

\* C7 (as claimed): after mark_seen with a room the viewer's counter for that
\* room is zero.
C7_Step ==
    \A message_ids \in Batches, viewer \in Viewers :
        mark_seen(message_ids, viewer, RoomAB) =>
            UnreadCount(UnreadMessage', viewer, RoomAB) = 0

C7_MarkSeenAlwaysClearsUnread == [][C7_Step]_vars

\* C8: whatever mark_seen call arrives, the same call made again right after
\* it changes no stored status and emits no event.
C8_MarkSeenIdempotent ==
    connected # {} =>
    \A message_ids \in Batches, viewer \in Viewers, room \in {RoomAB, NoRoom} :
        LET first == MarkSeenEffect(Message, AudioMessage, UnreadMessage, online_users,
                                    message_ids, viewer, room)
            again == MarkSeenEffect(first.M, first.A, first.U, online_users,
                                    message_ids, viewer, room)
        IN  /\ again.M = first.M
            /\ again.A = first.A
            /\ again.emits = <<>>

\* C8 witness: a first mark_seen of the batch <<1, 2>> has just acted: both
\* rows are seen and bob was told of both.
C8_Witness ==
    /\ Len(Message) >= 2
    /\ Message[1].status = "seen"
    /\ Message[2].status = "seen"
    /\ \E k \in 1..Len(emits) :
           emits[k].event = "messages_seen" /\ emits[k].payload.message_ids = <<1, 2>>

\* C9 (as claimed): a register whose token is missing or not in active_tokens
\* returns false, sends force_logout to the caller only, and leaves
\* online_users as it was.
C9_Step ==
    \A sid \in Sids, username \in Users, token \in RegisterTokens :
        (on_register(sid, username, token) /\ token \notin active_tokens) =>
            /\ ret' = RetFalse
            /\ emits' = <<Emit("force_logout", ToSid(sid), [reason |-> "invalid_token"])>>
            /\ online_users' = online_users

C9_InvalidCredentialForcesLogout == [][C9_Step]_vars

\* C10 (as claimed): a connection becomes the entry of username only by a
\* register that presents a credential resolving to username.
C10_Step ==
    \A sid \in Sids, username \in Users :
        (\E token \in Tokens : on_register(sid, username, token) /\ ret' = RetTrue) =>
            \E token \in Tokens :
                /\ on_register(sid, username, token)
                /\ ret' = RetTrue
                /\ TokenIdentity(token) = username

C10_RegisterNeedsOwnCredential == [][C10_Step]_vars

\* Positions in es of the user_list events addressed to every connection.
RosterBroadcasts(es) ==
    {k \in 1..Len(es) : es[k].event = "user_list" /\ es[k].to = ToAll}

\* The list users names every account exactly once, online exactly for the
\* usernames that hold an entry of registry d.
RosterMatches(users, d) ==
    /\ \A i \in 1..Len(users) : users[i].username \in Users
    /\ \A u \in Users :
           /\ Cardinality({i \in 1..Len(users) : users[i].username = u}) = 1
           /\ \A i \in 1..Len(users) :
                  users[i].username = u =>
                      (users[i].online <=> \E j \in 1..Len(d) : d[j].uname = u)

\* C11: a successful register, and a disconnect of a connection that holds an
\* entry, each emit exactly one user_list broadcast, and its list names every
\* account exactly once, online exactly for the usernames in the registry as
\* it is after the update.
C11_Step ==
    /\ \A sid \in Sids, username \in Users, token \in Tokens :
           (on_register(sid, username, token) /\ ret' = RetTrue) =>
               /\ Cardinality(RosterBroadcasts(emits')) = 1
               /\ \A k \in RosterBroadcasts(emits') :
                      RosterMatches(emits'[k].payload.users, online_users')
    /\ \A sid \in Sids :
           (on_disconnect(sid) /\ DictHas(online_users, sid)) =>
               /\ Cardinality(RosterBroadcasts(emits')) = 1
               /\ \A k \in RosterBroadcasts(emits') :
                      RosterMatches(emits'[k].payload.users, online_users')

C11_RosterBroadcastAfterPresenceChange == [][C11_Step]_vars

\* C11 witness: alice has just registered at s2 while s1, where she was
\* registered before, is still connected; the broadcast shows her online.
C11_Witness ==
    /\ ret = RetTrue
    /\ connected = Sids
    /\ online_users = <<[sid |-> "s2", uname |-> "alice"]>>
    /\ \E k \in RosterBroadcasts(emits) :
           \E i \in 1..Len(emits[k].payload.users) :
               emits[k].payload.users[i] = [username |-> "alice", online |-> TRUE]

\* C12: disconnecting a connection that holds no entry leaves the registry as
\* it is and emits nothing; a second disconnect of the same connection does
\* the same; and a disconnect never changes what a username that resolves to
\* another connection resolves to.
C12_Effect ==
    \A sid \in Sids :
        LET first == DisconnectEffect(online_users, sid)
        IN  /\ ~DictHas(online_users, sid) => first = [d |-> online_users, emits |-> <<>>]
            /\ DisconnectEffect(first.d, sid) = [d |-> first.d, emits |-> <<>>]
            /\ \A u \in Users :
                   Resolve(online_users, u) # sid => Resolve(first.d, u) = Resolve(online_users, u)

C12_Step ==
    \A sid \in Sids :
        (on_disconnect(sid) /\ ~DictHas(online_users, sid)) =>
            /\ online_users' = online_users
            /\ emits' = <<>>

C12_DisconnectIdempotent == []C12_Effect /\ [][C12_Step]_vars

\* C12 witness: s1 has gone without a broadcast while alice, registered at s2,
\* is still resolvable there.
C12_Witness ==
    /\ connected = {"s2"}
    /\ get_user_sid("alice") = "s2"
    /\ emits = <<>>
    /\ ret = RetNone

\* The connections reached by the events of es.
Delivered(es) == UNION {Receivers(es[k]) : k \in 1..Len(es)}

\* C13 (as claimed): a call_initiate with all four fields emits exactly one
\* event: call_offer (from, call_type, room_id) to the target's connection
\* when the target is online, otherwise call_error to the initiator's
\* connection; no call_offer is emitted when the target is offline.
C13_Step ==
    \A target \in CallTargets \ {None} :
        on_call_initiate(target, "video", "alice", RoomAB) =>
            /\ Len(emits') = 1
            /\ IF Resolve(online_users, target) # None
               THEN emits'[1] = Emit("call_offer", ToSid(Resolve(online_users, target)),
                                     [from |-> "alice", call_type |-> "video",
                                      room_id |-> RoomAB])
               ELSE /\ emits'[1].event = "call_error"
                    /\ emits'[1].to.kind = "sid"
                    /\ emits'[1].to.sid \in connected

C13_CallInitiateEmitsExactlyOne == [][C13_Step]_vars

\* C14: a well-formed call_response is relayed, with accepted, room_id and
\* call_type as given, to the connection the caller resolves to and to nobody
\* else; when the caller is offline nothing is emitted; and no other handler
\* (a later register of the caller included) ever emits a call_response.
C14_Step ==
    /\ \A accepted \in Answers \ {None}, call_type \in CallTypes :
           on_call_response("alice", "bob", accepted, RoomAB, call_type) =>
               IF Resolve(online_users, "alice") # None
               THEN /\ emits' = <<Emit("call_response", ToSid(Resolve(online_users, "alice")),
                                       [from |-> "bob", accepted |-> accepted,
                                        room_id |-> RoomAB, call_type |-> call_type])>>
                    /\ Delivered(emits') = {Resolve(online_users, "alice")}
               ELSE emits' = <<>>
    /\ (\E k \in 1..Len(emits') : emits'[k].event = "call_response") =>
           \E accepted \in Answers, call_type \in CallTypes :
               on_call_response("alice", "bob", accepted, RoomAB, call_type)

C14_CallResponseToCallerOnly == [][C14_Step]_vars

\* C14 witness: bob's refusal has just been relayed to alice at s1.
C14_Witness ==
    /\ Len(emits) = 1
    /\ emits[1].event = "call_response"
    /\ emits[1].to = ToSid("s1")
    /\ emits[1].payload.accepted = "False"
    /\ get_user_sid("alice") = "s1"

\* C15 (as claimed): a call_response of bob is relayed to alice only while an
\* offer of alice relayed to bob is unanswered, and call_ended / call_declined
\* are relayed only after an offer for the room.
C15_OriginalStep ==
    /\ \A accepted \in Answers, call_type \in CallTypes :
           (/\ on_call_response("alice", "bob", accepted, RoomAB, call_type)
            /\ \E k \in 1..Len(emits') : emits'[k].event = "call_response")
               => Offer("alice", "bob", RoomAB) \in call_log
    /\ \A sid \in Sids :
           (/\ on_call_ended(sid, RoomAB, DeviceUser(sid))
               \/ on_decline_call(sid, RoomAB, DeviceUser(sid))
            /\ emits' # <<>>)
               => \E o \in call_log : o.room = RoomAB

C15_CallStateMachineEnforced == [][C15_OriginalStep]_vars

\* C15 (amended): the server keeps no call state. A well-formed call_response
\* is relayed whenever the caller is online, and call_ended / call_declined
\* with room and sender are relayed to the room without the calling
\* connection, whatever offers were relayed before.
C15_AmendedStep ==
    /\ \A accepted \in Answers \ {None}, call_type \in CallTypes :
           (/\ on_call_response("alice", "bob", accepted, RoomAB, call_type)
            /\ Resolve(online_users, "alice") # None)
               => \E k \in 1..Len(emits') :
                      /\ emits'[k].event = "call_response"
                      /\ emits'[k].to = ToSid(Resolve(online_users, "alice"))
    /\ \A sid \in Sids :
           /\ on_call_ended(sid, RoomAB, DeviceUser(sid)) =>
                  emits' = <<Emit("call_ended", ToRoom(RoomAB, sid),
                                  [from |-> DeviceUser(sid)])>>
           /\ on_decline_call(sid, RoomAB, DeviceUser(sid)) =>
                  emits' = <<Emit("call_declined", ToRoom(RoomAB, sid),
                                  [from |-> DeviceUser(sid)])>>

C15_CallRelayIsStateless == [][C15_AmendedStep]_vars

\* C15 witness: an answer has been relayed to alice although no offer was
\* ever relayed to anyone.
C15_Witness ==
    /\ call_log = {}
    /\ \E k \in 1..Len(emits) :
           emits[k].event = "call_response" /\ emits[k].payload.accepted = "True"

\* C16: a signal that names a target reaches the connection the target
\* resolves to and no other (nobody when the target is offline); a signal
\* without a target reaches the members of the room other than the calling
\* connection.
C16_Step ==
    \A sid \in Sids, target \in SignalTargets :
        on_signal(sid, RoomAB, Signal(target), DeviceUser(sid)) =>
            /\ \A k \in 1..Len(emits') :
                   /\ emits'[k].event = "signal"
                   /\ emits'[k].payload = [from |-> DeviceUser(sid), signal |-> Signal(target)]
            /\ IF target # None
               THEN /\ Len(emits') <= 1
                    /\ Delivered(emits') =
                           IF Resolve(online_users, target) # None
                           THEN {Resolve(online_users, target)}
                           ELSE {}
               ELSE /\ Len(emits') = 1
                    /\ Delivered(emits') = members[RoomAB] \ {sid}

C16_SignalRouting == [][C16_Step]_vars

\* C16 witness: alice's signal for bob has just gone to s2 alone, while the
\* room's only member is s1.
C16_Witness ==
    /\ members[RoomAB] = {"s1"}
    /\ Len(emits) = 1
    /\ emits[1].event = "signal"
    /\ emits[1].payload.signal.target = "bob"
    /\ Delivered(emits) = {"s2"}

\* A dropped event: nothing is emitted and the registry, the room membership
\* and the tables are as before.
Dropped ==
    /\ emits' = <<>>
    /\ UNCHANGED <<online_users, members, Message, AudioMessage, UnreadMessage>>

\* C17: an event that misses a required field is dropped: signal without
\* room, payload or sender; send_chat_message without room, message or from;
\* mark_seen without ids or viewer; the typing, color and notification relays
\* without room or sender.
C17_Step ==
    /\ \A room \in MaybeRooms, message \in SendMessages, sender \in SendSenders :
           (/\ room = NoRoom \/ message \in {"", None} \/ sender = None
            /\ on_send_chat_message(room, message, sender)) => Dropped
    /\ \A message_ids \in SeenBatches, current_user \in SeenViewers :
           (/\ message_ids = <<>> \/ current_user = None
            /\ mark_seen(message_ids, current_user, RoomAB)) => Dropped
    /\ \A sid \in Sids, room \in MaybeRooms, sender \in RelaySenders :
           /\ \A signal_data \in Signals :
                  (/\ room = NoRoom \/ signal_data = NoSignal \/ sender = None
                   /\ on_signal(sid, room, signal_data, sender)) => Dropped
           /\ (room = NoRoom \/ sender = None) =>
                  /\ on_live_typing(sid, room, sender, "h") => Dropped
                  /\ on_call_chat_typing(sid, room, sender, "h") => Dropped
                  /\ on_call_chat_clear(sid, room, sender) => Dropped
                  /\ on_send_notification(sid, room, sender) => Dropped
                  /\ on_reset_bg_color(sid, room, sender) => Dropped
                  /\ \A color \in Colors : on_send_color(sid, room, sender, color) => Dropped

C17_MalformedEventsAreDropped == [][C17_Step]_vars

\* C17 witness: an event has just been dropped while the tables hold a
\* delivered message and a counter of one for alice, who is online.
C17_Witness ==
    /\ emits = <<>>
    /\ ret = RetNone
    /\ get_user_sid("alice") = "s1"
    /\ Len(Message) = 1
    /\ Message[1].status = "delivered"
    /\ UnreadCounter("alice", RoomAB) = 1

\* C18: whoever joins whichever room, the join leaves that user's counter for
\* the room at zero and answers the calling connection alone with one
\* room_joined; its peer is a part of the key other than the joining username
\* when the key has exactly two parts and such a part exists, and the empty
\* string otherwise.
C18_Reply ==
    \A sid \in Sids, room \in JoinKeys, username \in Users :
        LET parts == split(room)
            reply == JoinReply(sid, room, username)
        IN  /\ UnreadCount(ResetUnread(UnreadMessage, username, room), username, room) = 0
            /\ Len(reply) = 1
            /\ reply[1].event = "room_joined"
            /\ reply[1].to = ToSid(sid)
            /\ reply[1].payload.room_id = room
            /\ IF Len(parts) = 2 /\ Range(parts) \ {username} # {}
               THEN reply[1].payload.peer \in Range(parts) \ {username}
               ELSE reply[1].payload.peer = ""

C18_Step ==
    on_join("s1", RoomAB, "alice") =>
        /\ UnreadCount(UnreadMessage', "alice", RoomAB) = 0
        /\ emits' = <<Emit("room_joined", ToSid("s1"), [room_id |-> RoomAB, peer |-> "bob"])>>

C18_JoinResetsAndNamesPeer == []C18_Reply /\ [][C18_Step]_vars

\* C18 witness: alice has just joined alice-bob from s1: she was told her peer
\* is bob, and the counter row that bob's messages had created reads zero.
C18_Witness ==
    /\ emits = <<Emit("room_joined", ToSid("s1"), [room_id |-> RoomAB, peer |-> "bob"])>>
    /\ \E i \in 1..Len(UnreadMessage) :
           UnreadMessage[i] = [username |-> "alice", room |-> RoomAB, count |-> 0]
    /\ \E i \in 1..Len(Message) : Message[i].room = RoomAB /\ Message[i].status = "delivered"

\* C19: a send adds exactly one to the counter of each recipient of its room
\* that is resolvable at that moment (a missing counter counts as zero), and
\* leaves every other counter as it was: the sender's, those of recipients that
\* are offline, and those of other rooms; no second row is created for a
\* (user, room) pair.
C19_Step ==
    \A c \in SendCases \cup AudioCases :
        (on_send_chat_message(c[1], "hi", c[2]) \/ on_audio_message(c[1], c[2])) =>
            /\ \A u \in Users, room \in Rooms :
                   UnreadCount(UnreadMessage', u, room) =
                       UnreadCounter(u, room)
                       + (IF /\ room = c[1]
                             /\ u \in Range(split(room)) \ {c[2]}
                             /\ Resolve(online_users, u) # None
                          THEN 1 ELSE 0)
            /\ \A i, j \in 1..Len(UnreadMessage') :
                   (/\ UnreadMessage'[i].username = UnreadMessage'[j].username
                    /\ UnreadMessage'[i].room = UnreadMessage'[j].room) => i = j

C19_SendIncrementsOnlineRecipients == [][C19_Step]_vars

\* C19 witness: carol's message has just raised alice's counter for
\* alice-carol to one, next to her counter of one for alice-bob.
C19_Witness ==
    /\ UnreadCounter("alice", RoomAB) = 1
    /\ UnreadCounter("alice", RoomAC) = 1
    /\ \E k \in 1..Len(emits) :
           emits[k].event = "receive_chat_message" /\ emits[k].to = ToRoom(RoomAC, None)

\* The events of es addressed to a room.
RoomEvents(es) == {k \in 1..Len(es) : es[k].to.kind = "room"}

\* C20: a well-formed send_chat_message or audio_message emits exactly one
\* event to its room, nobody skipped: it reaches every member of the room, and
\* the status it carries is the status stored for the new row.
C20_Step ==
    /\ \A c \in SendCases :
           on_send_chat_message(c[1], "hi", c[2]) =>
               /\ Cardinality(RoomEvents(emits')) = 1
               /\ \A k \in RoomEvents(emits') :
                      /\ emits'[k].event = "receive_chat_message"
                      /\ emits'[k].to = ToRoom(c[1], None)
                      /\ Receivers(emits'[k]) = members[c[1]]
                      /\ emits'[k].payload.message_id = Len(Message')
                      /\ emits'[k].payload.status = Message'[Len(Message')].status
    /\ \A c \in AudioCases :
           on_audio_message(c[1], c[2]) =>
               /\ Cardinality(RoomEvents(emits')) = 1
               /\ \A k \in RoomEvents(emits') :
                      /\ emits'[k].event = "audio_message"
                      /\ emits'[k].to = ToRoom(c[1], None)
                      /\ Receivers(emits'[k]) = members[c[1]]
                      /\ emits'[k].payload.message_id = Len(AudioMessage')
                      /\ emits'[k].payload.status = AudioMessage'[Len(AudioMessage')].status

C20_SendBroadcastsStoredStatus == [][C20_Step]_vars

\* C20 witness: bob's audio message has just been broadcast as delivered to
\* alice-bob, which alice's connection has joined.
C20_Witness ==
    /\ members[RoomAB] = {"s1"}
    /\ \E k \in RoomEvents(emits) :
           /\ emits[k].event = "audio_message"
           /\ emits[k].payload.status = "delivered"
           /\ AudioMessage[emits[k].payload.message_id].status = "delivered"

\* The recipients of a message of sender to room that are resolvable.
OnlineRecipients(room, sender) ==
    {p \in Range(split(room)) \ {sender} : Resolve(online_users, p) # None}

\* The events of es named event.
EventsNamed(es, event) == {k \in 1..Len(es) : es[k].event = event}

\* Exactly one message_delivered goes to the sender's connection, carrying
\* the new id and the delivered-to set, when that set is not empty and the
\* sender is resolvable; none is emitted otherwise.
DeliveredNoticeOk(es, room, sender, id) ==
    LET ds == EventsNamed(es, "message_delivered")
    IN  IF OnlineRecipients(room, sender) # {} /\ Resolve(online_users, sender) # None
        THEN /\ Cardinality(ds) = 1
             /\ \A k \in ds :
                    /\ es[k].to = ToSid(Resolve(online_users, sender))
                    /\ Delivered(<<es[k]>>) \subseteq {Resolve(online_users, sender)}
                    /\ es[k].payload.message_id = id
                    /\ Range(es[k].payload.delivered_to) = OnlineRecipients(room, sender)
        ELSE ds = {}

\* C21: on a send the sender's connection, and no other, gets exactly one
\* message_delivered with the delivered-to set if and only if that set is not
\* empty and the sender is resolvable in the registry.
C21_Step ==
    /\ \A c \in SendCases :
           on_send_chat_message(c[1], "hi", c[2]) =>
               DeliveredNoticeOk(emits', c[1], c[2], Len(Message'))
    /\ \A c \in AudioCases :
           on_audio_message(c[1], c[2]) =>
               DeliveredNoticeOk(emits', c[1], c[2], Len(AudioMessage'))

C21_SenderToldOfDelivery == [][C21_Step]_vars

\* C21 witness: bob, online at s2, has just been told that his message
\* reached alice.
C21_Witness ==
    \E k \in EventsNamed(emits, "message_delivered") :
        /\ emits[k].to = ToSid("s2")
        /\ emits[k].payload.delivered_to = <<"alice">>
        /\ get_user_sid("bob") = "s2"

\* Every registered connection of a user other than sender is the target of
\* exactly one global_message_notification of es, and no connection of
\* sender is the target of any.
GlobalNoticeOk(es, sender) ==
    \A i \in 1..Len(online_users) :
        LET ns == {k \in EventsNamed(es, "global_message_notification") :
                      es[k].to = ToSid(online_users[i].sid)}
        IN  IF online_users[i].uname # sender
            THEN Cardinality(ns) = 1
            ELSE ns = {}

\* C22: every send, text or audio, delivers exactly one global notification
\* to every online user other than the sender, whatever rooms they joined,
\* and none to the sender.
C22_Step ==
    /\ \A c \in SendCases :
           on_send_chat_message(c[1], "hi", c[2]) => GlobalNoticeOk(emits', c[2])
    /\ \A c \in AudioCases :
           on_audio_message(c[1], c[2]) => GlobalNoticeOk(emits', c[2])

C22_EverySendNotifiesGlobally == [][C22_Step]_vars

\* The text half of C22, which the code does implement.
C22_TextStep ==
    \A c \in SendCases :
        on_send_chat_message(c[1], "hi", c[2]) => GlobalNoticeOk(emits', c[2])

C22_TextSendNotifiesGlobally == [][C22_TextStep]_vars

\* Ids of the rows of sender that go from sent in T to delivered in T2.
Promoted(T, T2, sender) ==
    {i \in 1..Len(T) : /\ T[i].sender = sender
                        /\ T[i].status = "sent"
                        /\ T2[i].status = "delivered"}

\* C23: when a registration promotes pending messages, each distinct original
\* sender that is online gets exactly one messages_delivered event, listing
\* exactly the ids of their own promoted messages; nobody else, the
\* registering user included, gets one.
C23_Step ==
    \A dev \in Devices :
        (on_register(dev[1], TokenIdentity(dev[2]), dev[2]) /\ ret' = RetTrue) =>
            LET all == EventsNamed(emits', "messages_delivered")
                notified == {u \in Users :
                                /\ Promoted(Message, Message', u)
                                       \cup Promoted(AudioMessage, AudioMessage', u) # {}
                                /\ Resolve(online_users', u) # None}
            IN  /\ \A u \in notified :
                       LET mine == EventsTo(emits', "messages_delivered",
                                            Resolve(online_users', u))
                       IN  /\ Cardinality(mine) = 1
                           /\ \A k \in mine :
                                  /\ Range(emits'[k].payload.message_ids)
                                         = Promoted(Message, Message', u)
                                           \cup Promoted(AudioMessage, AudioMessage', u)
                                  /\ Len(emits'[k].payload.message_ids)
                                         = Cardinality(Promoted(Message, Message', u))
                                           + Cardinality(Promoted(AudioMessage, AudioMessage', u))
                /\ Cardinality(all) = Cardinality(notified)
                /\ TokenIdentity(dev[2]) \notin notified
                /\ EventsTo(emits', "messages_delivered", dev[1]) = {}

C23_RegisterNotifiesEachSenderOnce == [][C23_Step]_vars

\* C23 witness: alice's registration has just promoted a message of carol
\* and a message of bob, and bob, online at s2, is told of his own only.
C23_Witness ==
    /\ Len(Message) = 2
    /\ Message[1].sender = "carol" /\ Message[1].status = "delivered"
    /\ Message[2].sender = "bob" /\ Message[2].status = "delivered"
    /\ \E k \in EventsTo(emits, "messages_delivered", "s2") :
           /\ emits[k].payload.message_ids = <<2>>
           /\ emits[k].payload.by = "alice"
    /\ get_user_sid("alice") = "s1"

\* How many times id occurs in the sequence ids.
Occurrences(ids, id) == Cardinality({k \in 1..Len(ids) : ids[k] = id})

\* C27 (as claimed): when an id of a mark_seen batch exists in both tables,
\* the call sets at most one of the two rows to seen, and no messages_seen
\* event lists that id more than once.
C27_MarkSeenDisambiguatesByType ==
    connected # {} =>
    \A message_ids \in Batches, viewer \in Viewers, room \in {RoomAB, NoRoom} :
        LET eff == MarkSeenEffect(Message, AudioMessage, UnreadMessage, online_users,
                                  message_ids, viewer, room)
        IN  \A id \in Range(message_ids) :
                (id <= Len(Message) /\ id <= Len(AudioMessage)) =>
                    /\ ~ /\ Message[id].status # "seen" /\ eff.M[id].status = "seen"
                          /\ AudioMessage[id].status # "seen" /\ eff.A[id].status = "seen"
                    /\ \A k \in EventsNamed(eff.emits, "messages_seen") :
                           Occurrences(eff.emits[k].payload.message_ids, id) <= 1

\* The reactions of row hold item username -> emoji.
HasReaction(row, username, emoji) ==
    \E i \in 1..Len(get_reactions(row)) :
        get_reactions(row)[i] = [k |-> username, v |-> emoji]

\* The rows of tables M and A that carry message_id.
RowsWithId(M, A, message_id) ==
    {M[i] : i \in {message_id} \cap (1..Len(M))}
        \cup {A[i] : i \in {message_id} \cap (1..Len(A))}

RealEmojis == {e \in Emojis : Truthy(e)}

RealReactors == {u \in Reactors : Truthy(u)}

\* C24 (as claimed): for every id that names a message, in one table or in
\* both, and every user without a reaction on it, after addReaction(id, u, e)
\* the message's reactions hold u -> e, and after removeReaction(id, u) they
\* no longer hold u.
C24_ReactionRoundTrip ==
    \A message_id \in ReactIds \ {NoId}, u \in RealReactors, e \in RealEmojis :
        (/\ RowsWithId(Message, AudioMessage, message_id) # {}
         /\ \A row \in RowsWithId(Message, AudioMessage, message_id) :
                ~ReactionsHas(get_reactions(row), u)) =>
            LET added == ReactEffect(Message, AudioMessage, message_id, e, u)
                removed == RemoveEffect(added.M, added.A, message_id, u)
            IN  /\ added.response.code = 200
                /\ \E row \in RowsWithId(added.M, added.A, message_id) :
                       HasReaction(row, u, e)
                /\ removed.response.code = 200
                /\ \A row \in RowsWithId(removed.M, removed.A, message_id) :
                       ~ReactionsHas(get_reactions(row), u)

\* C25 (as claimed): adding again overwrites the user's reaction, and
\* removeReaction for a user without a reaction on an existing message
\* succeeds, changes nothing, and reports and broadcasts the whole unchanged
\* mapping to the room.
C25_ReactionsIdempotent ==
    \A message_id \in ReactIds \ {NoId}, u \in RealReactors :
        RemoveTable(Message, AudioMessage, message_id) # None =>
            /\ \A e1 \in RealEmojis, e2 \in RealEmojis :
                   LET once == ReactEffect(Message, AudioMessage, message_id, e1, u)
                       twice == ReactEffect(once.M, once.A, message_id, e2, u)
                   IN  /\ twice.response.code = 200
                       /\ Cardinality({i \in 1..Len(twice.response.reactions) :
                                          twice.response.reactions[i].k = u}) = 1
                       /\ [k |-> u, v |-> e2] \in Range(twice.response.reactions)
            /\ LET row == RemoveRows(Message, AudioMessage, message_id)[message_id]
                   eff == RemoveEffect(Message, AudioMessage, message_id, u)
               IN  ~ReactionsHas(get_reactions(row), u) =>
                       /\ eff.response = Response(200, get_reactions(row))
                       /\ eff.M = Message /\ eff.A = AudioMessage
                       /\ eff.emits = ReactionsUpdated(row.room, message_id,
                                                       get_reactions(row))

\* The half of C25 the code implements: adding again overwrites.
C25_ReAddOverwrites ==
    \A message_id \in ReactIds \ {NoId}, u \in RealReactors :
        RemoveTable(Message, AudioMessage, message_id) # None =>
            \A e1 \in RealEmojis, e2 \in RealEmojis :
                LET once == ReactEffect(Message, AudioMessage, message_id, e1, u)
                    twice == ReactEffect(once.M, once.A, message_id, e2, u)
                IN  /\ twice.response.code = 200
                    /\ Cardinality({i \in 1..Len(twice.response.reactions) :
                                       twice.response.reactions[i].k = u}) = 1
                    /\ [k |-> u, v |-> e2] \in Range(twice.response.reactions)

\* C26: addReaction or removeReaction for an id that is in neither table
\* reports failure, broadcasts nothing and changes no row.
C26_UnknownIdFails ==
    \A message_id \in ReactIds \ {NoId}, u \in RealReactors, e \in RealEmojis :
        RowsWithId(Message, AudioMessage, message_id) = {} =>
            LET added == ReactEffect(Message, AudioMessage, message_id, e, u)
                removed == RemoveEffect(Message, AudioMessage, message_id, u)
            IN  /\ added.response.code = 404 /\ removed.response.code = 404
                /\ added.emits = <<>> /\ removed.emits = <<>>
                /\ added.M = Message /\ added.A = AudioMessage
                /\ removed.M = Message /\ removed.A = AudioMessage

\* C26 witness: a reaction endpoint has just answered 404 and emitted nothing
\* while a message with a reaction is stored.
C26_Witness ==
    /\ response.code = 404
    /\ emits = <<>>
    /\ Len(Message) = 1
    /\ HasReaction(Message[1], "alice", "heart")

\* The step emits the single event named event, which reaches every member
\* of room except connection sid, and it changes neither the registry, the
\* tokens, the memberships, the stored rows nor the unread counters.
Relayed(event, sid, room) ==
    /\ Len(emits') = 1
    /\ emits'[1].event = event
    /\ Receivers(emits'[1]) = MembersOf(room) \ {sid}
    /\ UNCHANGED <<connected, online_users, active_tokens, members,
                   Message, AudioMessage, UnreadMessage>>

\* C28: typing, call-chat typing, call-chat clear, notification, color,
\* background reset, call ended and call declined are pure relays: the event
\* reaches every member of the room except the sending connection, and the
\* registry, the statuses and the counters stay as they were.
C28_Step ==
    \A sid \in Sids :
        /\ on_live_typing(sid, RoomAB, DeviceUser(sid), "h")
               => Relayed("live_typing", sid, RoomAB)
        /\ on_call_chat_typing(sid, RoomAB, DeviceUser(sid), "h")
               => Relayed("call_chat_typing", sid, RoomAB)
        /\ on_call_chat_clear(sid, RoomAB, DeviceUser(sid))
               => Relayed("call_chat_clear", sid, RoomAB)
        /\ on_send_notification(sid, RoomAB, DeviceUser(sid))
               => Relayed("receive_notification", sid, RoomAB)
        /\ on_send_color(sid, RoomAB, DeviceUser(sid), "red")
               => Relayed("receive_color", sid, RoomAB)
        /\ on_reset_bg_color(sid, RoomAB, DeviceUser(sid))
               => Relayed("receive_reset_bg_color", sid, RoomAB)
        /\ on_call_ended(sid, RoomAB, DeviceUser(sid))
               => Relayed("call_ended", sid, RoomAB)
        /\ on_decline_call(sid, RoomAB, DeviceUser(sid))
               => Relayed("call_declined", sid, RoomAB)

C28_RelaysArePure == [][C28_Step]_vars

\* C28 witness: with both devices in the room, a stored message and an unread
\* counter, alice's device has relayed a color that reaches bob's device only.
C28_Witness ==
    /\ members[RoomAB] = {"s1", "s2"}
    /\ Len(Message) > 0
    /\ UnreadMessage # <<>>
    /\ Len(emits) = 1
    /\ emits[1].event = "receive_color"
    /\ Receivers(emits[1]) = {"s2"}

\* The connections mapped to username in the registry.
EntriesOf(username) ==
    {i \in 1..Len(online_users) : online_users[i].uname = username}

\* No registration is in flight.
AllIdle == \A c \in Calls : running[c].pc = "idle"

\* C29 (as claimed), first part: in every reachable state a username is
\* mapped to at most one connection.
C29_AtMostOneEntry == \A u \in Users : Cardinality(EntriesOf(u)) <= 1

\* C29 (as claimed), second part: while a registration of a username is
\* evicting, no step of a registration makes the username unresolvable.
C29_NeverAbsentStep ==
    \A u \in Users :
        (/\ Resolve(online_users, u) # None
         /\ connected' = connected
         /\ \E c \in Calls : running[c].pc = "evict" /\ running[c].username = u)
            => Resolve(online_users', u) # None

\* C29 (as claimed), third part: when a registration from a live connection
\* completes and none is left in flight, the registry holds exactly one entry
\* for the username.
C29_OneEntryAtEndStep ==
    \A c \in Calls :
        (/\ running[c].pc = "announce"
         /\ on_register_announce(c)
         /\ running[c].sid \in connected
         /\ AllIdle')
            => Cardinality({i \in 1..Len(online_users') :
                               online_users'[i].uname = running[c].username}) = 1

\* C29 (as claimed): concurrent registrations of one username from different
\* connections never leave it mapped to two connections, never make it
\* unresolvable while it re-registers, and end with exactly one entry.
C29_ConcurrentRegisterIsAtomic ==
    /\ []C29_AtMostOneEntry
    /\ [][C29_NeverAbsentStep]_vars
    /\ [][C29_OneEntryAtEndStep]_vars

\* The invocations whose updated_messages hold the text message id.
Transitioned(id) ==
    {c \in Calls : \E k \in 1..Len(running[c].updated) :
                      running[c].updated[k].id = id /\ running[c].updated[k].type = "text"}

\* The invocations that have emitted a messages_seen event listing id.
Announced(id) ==
    {c \in Calls : \E k \in EventsNamed(running[c].out, "messages_seen") :
                      id \in Range(running[c].out[k].payload.message_ids)}

\* C30 (as claimed), as a state predicate: of the mark_seen calls in flight
\* for one id at most one performs the transition to seen, and the sender
\* gets at most one messages_seen event listing the id.
C30_OneTransition ==
    \A id \in 1..Len(Message) :
        /\ Cardinality(Transitioned(id)) <= 1
        /\ Cardinality(Announced(id)) <= 1

\* C30 (as claimed): two near-simultaneous mark_seen calls for the same id,
\* interleaved at their reads and commits: exactly one performs the
\* transition, the sender gets at most one messages_seen listing the id, and
\* the status never moves backward.
C30_ConcurrentMarkSeenOnce ==
    /\ []C30_OneTransition
    /\ [][C2_Step]_vars

\* The part of C30 that holds under every interleaving: no status moves
\* backward.
C30_StatusNeverBackward == [][C2_Step]_vars

\* The rows of the unread table for (username, room).
UnreadRows(username, room) ==
    {i \in 1..Len(UnreadMessage) :
        UnreadMessage[i].username = username /\ UnreadMessage[i].room = room}

\* C31 (as claimed): once the concurrent sends to a room have completed, with
\* the recipient online and no join or mark_seen in between, one unread row
\* exists for (recipient, room) and it counts every send.
C31_UnreadIncrementsAtomic ==
    AllIdle =>
        /\ Cardinality(UnreadRows("alice", RoomAB)) <= 1
        /\ UnreadCounter("alice", RoomAB) = Len(Message)

\* C32 (as claimed): whatever is interleaved between the commit that stores a
\* new message as sent and the write that sets it to delivered, no step takes
\* a stored status from seen back to delivered.
C32_Step ==
    \A i \in 1..Len(Message) :
        Message[i].status = "seen" => Message'[i].status # "delivered"

C32_DeliveredWriteKeepsSeen == [][C32_Step]_vars

\* No event of es tells a sender that a message was delivered or seen.
NoStatusNotice(es) ==
    \A k \in 1..Len(es) :
        es[k].event \notin {"message_delivered", "messages_delivered", "messages_seen"}

\* C33 (as claimed): when a commit of a send, of mark_seen or of the promotion
\* at register fails, the operation leaves no part of its status transition
\* behind: the rows it touched do not carry the new status, the unread
\* counters are as they were, and no delivered or seen notification goes out.
C33_Step ==
    /\ on_send_deliver_fails("c1") =>
           /\ Message'[running["c1"].id].status = "sent"
           /\ UnreadMessage' = UnreadMessage
           /\ NoStatusNotice(emits')
    /\ (on_register_announce_fails("c1") /\ running["c1"].pc = "announce") =>
           /\ Message' = Message
           /\ NoStatusNotice(emits')
    /\ (mark_seen_commit_fails("c1") /\ running["c1"].pc = "scan") =>
           /\ \A k \in 1..Len(running["c1"].updated) :
                  Message'[running["c1"].updated[k].id].status # "seen"
           /\ UnreadMessage' = UnreadMessage
           /\ NoStatusNotice(emits')
    /\ (mark_seen_notify_fails("c1") /\ running["c1"].pc = "notify") =>
           /\ \A k \in 1..Len(running["c1"].updated) :
                  Message'[running["c1"].updated[k].id].status # "seen"
           /\ UnreadMessage' = UnreadMessage
           /\ NoStatusNotice(emits')

C33_FailedWriteLeavesNothing == [][C33_Step]_vars

\* C34 (as claimed): a status only moves from sent to delivered and from
\* delivered to seen; no step takes a row of either table from sent to seen.
C34_Step ==
    /\ \A i \in 1..Len(Message) :
           Message[i].status = "sent" => Message'[i].status # "seen"
    /\ \A i \in 1..Len(AudioMessage) :
           AudioMessage[i].status = "sent" => AudioMessage'[i].status # "seen"

C34_SeenOnlyAfterDelivered == [][C34_Step]_vars

\* C35 (as claimed): a mark_seen whose viewer is not a participant of a
\* message's room leaves that message's status as it is and emits no
\* messages_seen event that lists it.
C35_OutsiderCannotMarkSeen ==
    connected # {} =>
    \A message_ids \in Batches, viewer \in Viewers, room \in {RoomAB, NoRoom} :
        LET eff == MarkSeenEffect(Message, AudioMessage, UnreadMessage, online_users,
                                  message_ids, viewer, room)
        IN  /\ \A i \in 1..Len(Message) :
                   viewer \notin Range(split(Message[i].room)) =>
                       /\ eff.M[i] = Message[i]
                       /\ (i \notin 1..Len(AudioMessage) /\ Message[i].status # "seen") =>
                              \A k \in EventsNamed(eff.emits, "messages_seen") :
                                  i \notin Range(eff.emits[k].payload.message_ids)
            /\ \A i \in 1..Len(AudioMessage) :
                   viewer \notin Range(split(AudioMessage[i].room)) =>
                       eff.A[i] = AudioMessage[i]

\* The step stores one more row, with status sent, and touches no counter.
StoredAsSent ==
    /\ Len(Message') = Len(Message) + 1
    /\ Message'[Len(Message')].status = "sent"
    /\ UnreadMessage' = UnreadMessage

\* C38: a message stored by call_chat_message, message or send_file starts
\* as sent and touches no unread counter, whoever is online; a row of theirs
\* goes from sent to delivered only in a successful register of a
\* participant of its room other than its sender.
C38_Step ==
    /\ (on_call_chat_message("s2", RoomAB, "hi", "bob") /\ Message' # Message)
           => StoredAsSent
    /\ (handle_message("s2", "tok_bob", RoomAB, "hi") /\ Message' # Message)
           => StoredAsSent
    /\ (handle_send_file("s2", "tok_bob", RoomAB) /\ Message' # Message)
           => StoredAsSent
    /\ \A i \in 1..Len(Message) :
           (Message[i].status = "sent" /\ Message'[i].status = "delivered") =>
               \E dev \in Devices :
                   /\ on_register(dev[1], TokenIdentity(dev[2]), dev[2])
                   /\ ret' = RetTrue
                   /\ TokenIdentity(dev[2]) \in Range(split(Message[i].room))
                   /\ TokenIdentity(dev[2]) # Message[i].sender

C38_StoredOnlyHandlers == [][C38_Step]_vars

\* C38 witness: the first message was promoted by alice's registration; the
\* second was stored while she was online and is sent, and no counter exists.
C38_Witness ==
    /\ Len(Message) = 2
    /\ Message[1].status = "delivered"
    /\ Message[2].status = "sent"
    /\ get_user_sid("alice") = "s1"
    /\ UnreadMessage = <<>>

\* C36: opening a connection changes neither the registry nor any stored
\* status nor any unread counter, and emits one user_list snapshot, to the
\* new connection only; a user becomes resolvable only in a successful
\* register.
C36_Step ==
    /\ \A sid \in Sids :
           on_connect(sid) =>
               /\ UNCHANGED <<online_users, Message, AudioMessage, UnreadMessage>>
               /\ Len(emits') = 1
               /\ emits'[1].event = "user_list"
               /\ emits'[1].to = ToSid(sid)
    /\ \A username \in Users :
           (get_user_sid(username) = None /\ UserSidIn(online_users', username) # None) =>
               \E dev \in Devices :
                   /\ on_register(dev[1], TokenIdentity(dev[2]), dev[2])
                   /\ TokenIdentity(dev[2]) = username
                   /\ ret' = RetTrue

C36_ConnectChangesNothing == [][C36_Step]_vars

\* C36 witness: bob's device has just connected while alice is registered
\* with a delivered message and an unread counter; bob is not online and
\* the only event is the snapshot for his connection.
C36_Witness ==
    /\ connected = {"s1", "s2"}
    /\ get_user_sid("alice") = "s1"
    /\ get_user_sid("bob") = None
    /\ Len(Message) >= 1
    /\ Message[1].status = "delivered"
    /\ UnreadCounter("alice", RoomAB) >= 1
    /\ Len(emits) = 1
    /\ emits[1].event = "user_list"
    /\ emits[1].to = ToSid("s2")

\* Events of the last step with the given name.
Emitted(event) == {i \in 1..Len(emits) : emits[i].event = event}

\* C37: registering, being evicted by a later registration, and mark_seen
\* change no room's membership; a room broadcast reaches every connection
\* that joined the room and has not left or closed, registered or not, while
\* an event routed by username reaches only the user's registered (newer)
\* connection.
C37_Step ==
    ((\E sid \in Sids : on_register(sid, "alice", "tok_alice"))
         \/ mark_seen(<<1>>, "alice", RoomAB))
        => UNCHANGED members

C37_Routing ==
    /\ \A i \in Emitted("receive_chat_message") :
           Receivers(emits[i]) = members[RoomAB]
    /\ \A i \in Emitted("global_message_notification") :
           /\ emits[i].to = ToSid(get_user_sid("alice"))
           /\ Receivers(emits[i]) = {get_user_sid("alice")}

C37_MembershipApartFromRegistry == []C37_Routing /\ [][C37_Step]_vars

\* C37 witness: alice's first device joined the room and was then evicted by
\* her registration on the second; bob's message is broadcast to the first
\* device still, and the notification by username goes to the second.
C37_Witness ==
    /\ members[RoomAB] = {"s1"}
    /\ ~DictHas(online_users, "s1")
    /\ get_user_sid("alice") = "s2"
    /\ \E i \in Emitted("receive_chat_message") : "s1" \in Receivers(emits[i])
    /\ \E i \in Emitted("global_message_notification") : emits[i].to = ToSid("s2")

\* C39: once logout has been called with a token that login issued, the
\* token is no longer in active_tokens (so that authenticate and register
\* with it are refused until it is validated again).
C39_Step ==
    \A token \in Tokens : logout(token) => token \notin active_tokens'

C39_LogoutRevokes == [][C39_Step]_vars

====
